---- MODULE Spec2Model ----
(***************************************************************************)
(* Local LLM Logger v3: the conversation store (models.py), the per-turn   *)
(* artifacts (storage.py) and the HTTP handlers (routes.py), as a state    *)
(* machine.                                                                *)
(*                                                                         *)
(* Granularity.  A method of Conversation and a storage function is one    *)
(* atomic step.  A handler that calls the gateway is split where its       *)
(* thread blocks: at the gateway call, at the artifact write and at the    *)
(* conversation update.  A comparison runs one worker task per requested   *)
(* model; a task completes in a step of its own and the request thread     *)
(* observes completions through concurrent.futures.as_completed.           *)
(*                                                                         *)
(* Text is a sequence of one-character strings, so that slugify, the       *)
(* token estimate and the directory names are computed as the code         *)
(* computes them.  Python's None is the one-element sequence None, which   *)
(* no text equals.                                                         *)
(***************************************************************************)
EXTENDS Integers, Sequences, FiniteSets, TLC

(***************************************************************************)
(* Bounds of the model                                                     *)
(***************************************************************************)
\* rows of turns.csv after which no further send or comparison is started
MaxRows == 3
\* rows of conversations.csv after which no further conversation is ended
MaxEnds == 2
\* the files uploaded to one conversation
MaxFiles == 2
\* the window sizes get_windowed_messages is called with
MaxWindow == 2

(***************************************************************************)
(* Program constants                                                       *)
(***************************************************************************)
\* config.CONTEXT_WINDOW_SIZE, the default of the environment variable
CONTEXT_WINDOW_SIZE == 10
\* storage.slugify's maxlen
SlugMaxLen == 40

(***************************************************************************)
(* Text                                                                    *)
(***************************************************************************)
None == <<"<None>">>

\* a key a dict does not have
Absent == "<absent>"

Lower == {"a","b","c","d","e","f","g","h","i","j","k","l","m",
          "n","o","p","q","r","s","t","u","v","w","x","y","z"}
Upper == {"A","B","C","D","E","F","G","H","I","J","K","L","M",
          "N","O","P","Q","R","S","T","U","V","W","X","Y","Z"}
Digit == {"0","1","2","3","4","5","6","7","8","9"}

\* the characters re's \s matches
IsSpace(c) == c \in {" ", "\n", "\t", "\r"}

\* the characters the class [^a-zA-Z0-9-_] does not remove
IsSlugChar(c) == c \in Lower \cup Upper \cup Digit \cup {"-", "_"}

RECURSIVE LStrip(_)
LStrip(t) == IF t # <<>> /\ IsSpace(Head(t)) THEN LStrip(Tail(t)) ELSE t

RECURSIVE RStrip(_)
RStrip(t) ==
  IF t # <<>> /\ IsSpace(t[Len(t)]) THEN RStrip(SubSeq(t, 1, Len(t) - 1)) ELSE t

\* str.strip()
Strip(t) == RStrip(LStrip(t))

\* prompt.split("\n", 1)[0]
RECURSIVE FirstLine(_)
FirstLine(t) ==
  IF t = <<>> \/ Head(t) = "\n" THEN <<>> ELSE <<Head(t)>> \o FirstLine(Tail(t))

\* re.sub(r"\s+", "-", t): every maximal run of whitespace becomes one "-"
RECURSIVE DashSpaces(_)
DashSpaces(t) ==
  IF t = <<>> THEN <<>>
  ELSE IF IsSpace(Head(t)) THEN <<"-">> \o DashSpaces(LStrip(t))
  ELSE <<Head(t)>> \o DashSpaces(Tail(t))

\* re.sub(r"[^a-zA-Z0-9-_]", "", t)
RECURSIVE KeepSlugChars(_)
KeepSlugChars(t) ==
  IF t = <<>> THEN <<>>
  ELSE (IF IsSlugChar(Head(t)) THEN <<Head(t)>> ELSE <<>>) \o KeepSlugChars(Tail(t))

\* t[:n]
Prefix(t, n) == SubSeq(t, 1, IF Len(t) < n THEN Len(t) ELSE n)

slugify(text) ==
  LET s == Prefix(KeepSlugChars(DashSpaces(Strip(text))), SlugMaxLen)
  IN  IF s = <<>> THEN <<"p","r","o","m","p","t">> ELSE s

\* Conversation.estimate_tokens without tiktoken: len(text) // 4
estimate_tokens(text) == Len(text) \div 4

(***************************************************************************)
(* Inputs                                                                  *)
(***************************************************************************)
Sessions == {"s1"}
\* the ids new_conversation generates: f"conv_{now}_{uuid4()[:8]}", never one in use
ConvIds == {"c1"}
ModelA == "llama3"
ModelB == "claude-x"
ModelC == "gemini-x"
Models == {ModelA, ModelB, ModelC}

\* "hi you"
PromptHi == <<"h","i"," ","y","o","u">>
\* "Hi  two?\nmore": a second line, a run of spaces and a removed character
PromptTwo == <<"H","i"," "," ","t","w","o","?","\n","m","o","r","e">>
Prompts == {PromptHi, PromptTwo}

\* what the gateway returns for a model: "A says ok" / "B: fine" / "C"
ResponseOf(m) ==
  IF m = ModelA THEN <<"A"," ","s","a","y","s"," ","o","k">>
  ELSE IF m = ModelB THEN <<"B",":"," ","f","i","n","e">>
  ELSE <<"C">>

\* str(e) of the exception a failed gateway call raises
ErrorText == <<"d","o","w","n">>

\* the text files a client uploads: "a.txt" holding "x1", "b" holding "y"
FileA == [filename |-> <<"a",".","t","x","t">>, content |-> <<"x","1">>]
FileB == [filename |-> <<"b">>, content |-> <<"y">>]
Files == {FileA, FileB}

(***************************************************************************)
(* State                                                                   *)
(***************************************************************************)
VARIABLES
  ACTIVE_CONVERSATIONS, \* routes.ACTIVE_CONVERSATIONS: the dict's items, in insertion order
  heap,                 \* the Conversation objects that are still referenced
  fresh,                \* the objects new_conversation built (restore builds the others)
  disk,                 \* CONVERSATIONS_DIR: per conversation, conversation.json and the turn directories
  TURNS_CSV,            \* the rows of logs/turns.csv
  CONVERSATIONS_CSV,    \* the rows of logs/conversations.csv
  reqs,                 \* the requests in flight, by request thread
  reply,                \* what the handler that finished last answered
  HISTORIES,            \* v2's HISTORIES: per session id, the messages kept
  CSV_LOG               \* v2's logs/log.csv: one row per answered generate

vars == <<ACTIVE_CONVERSATIONS, heap, fresh, disk, TURNS_CSV,
          CONVERSATIONS_CSV, reqs, reply, HISTORIES, CSV_LOG>>

\* the request threads of the model
ReqIds == {1, 2}

(***************************************************************************)
(* models.Conversation                                                     *)
(***************************************************************************)
\* Conversation.__init__
Conversation(conv_id) ==
  [id |-> conv_id, ended |-> FALSE, turns |-> <<>>, messages |-> <<>>,
   models_used |-> {}, files |-> <<>>,
   total_input_tokens |-> 0, total_output_tokens |-> 0]

Message(role, content) == [role |-> role, content |-> content]

\* "\n--- File: {filename} ---\n{content}\n--- End of file ---\n"
FileBlock(f) ==
  <<"\n","-","-","-"," ","F","i","l","e",":"," ">> \o f.filename
    \o <<" ","-","-","-","\n">> \o f.content
    \o <<"\n","-","-","-"," ","E","n","d"," ","o","f"," ","f","i","l","e"," ","-","-","-","\n">>

\* "\n".join(parts)
RECURSIVE JoinLines(_)
JoinLines(parts) ==
  IF parts = <<>> THEN <<>>
  ELSE IF Len(parts) = 1 THEN parts[1]
  ELSE parts[1] \o <<"\n">> \o JoinLines(Tail(parts))

\* Conversation.add_file
add_file(c, filename, content) ==
  [c EXCEPT !.files = Append(@, [filename |-> filename, content |-> content])]

\* a file context that holds the file uploaded last
get_files_context_Latest(c) ==
  IF c.files = <<>> THEN <<>>
  ELSE FileBlock(c.files[Len(c.files)])

get_files_context(c) ==
  IF c.files = <<>> THEN <<>>
  ELSE JoinLines([i \in 1..Len(c.files) |-> FileBlock(c.files[i])])

\* a window that counts messages where the code counts turns
get_windowed_messages_PerMessage(c, window_size) ==
  IF window_size <= 0 THEN c.messages
  ELSE IF Len(c.messages) <= window_size THEN c.messages
  ELSE SubSeq(c.messages, Len(c.messages) - window_size + 1, Len(c.messages))

\* a window of one message more than window_size turns
get_windowed_messages_OneMore(c, window_size) ==
  IF window_size <= 0 THEN c.messages
  ELSE IF Len(c.messages) <= window_size * 2 THEN c.messages
  ELSE SubSeq(c.messages, Len(c.messages) - window_size * 2, Len(c.messages))

\* Conversation.get_windowed_messages
get_windowed_messages(c, window_size) ==
  IF window_size <= 0 THEN c.messages
  ELSE IF Len(c.messages) <= window_size * 2 THEN c.messages
  ELSE SubSeq(c.messages, Len(c.messages) - window_size * 2 + 1, Len(c.messages))

\* a clear_context that starts the token count again
clear_context_Reset(c) ==
  [c EXCEPT !.messages = <<>>, !.total_input_tokens = 0, !.total_output_tokens = 0]

clear_context(c) == [c EXCEPT !.messages = <<>>]

\* the turn dict add_turn builds
RegularTurn(c, model, prompt, response) ==
  [turn_number |-> Len(c.turns) + 1, ts |-> "datetime", type |-> "regular",
   model |-> model, prompt |-> prompt, response |-> response, results |-> <<>>,
   input_tokens |-> estimate_tokens(prompt),
   output_tokens |-> estimate_tokens(response)]

\* Conversation._log_turn: the row appended to turns.csv
TurnRow(c, turn) ==
  [conversation_id |-> c.id, turn_number |-> turn.turn_number,
   model |-> turn.model, prompt |-> turn.prompt, response |-> turn.response]

\* an add_turn that counts the prompt only
add_turn_InputOnly(c, model, prompt, response) ==
  LET turn == RegularTurn(c, model, prompt, response)
  IN  [c EXCEPT !.turns = Append(@, turn),
                !.models_used = @ \cup {model},
                !.total_input_tokens = @ + turn.input_tokens,
                !.messages = @ \o <<Message("user", prompt),
                                    Message("assistant", response)>>]

\* Conversation.add_turn, without the ledger row
add_turn(c, model, prompt, response) ==
  LET turn == RegularTurn(c, model, prompt, response)
  IN  [c EXCEPT !.turns = Append(@, turn),
                !.models_used = @ \cup {model},
                !.total_input_tokens = @ + turn.input_tokens,
                !.total_output_tokens = @ + turn.output_tokens,
                !.messages = @ \o <<Message("user", prompt),
                                    Message("assistant", response)>>]

\* the results of a comparison whose gateway call succeeded
Succeeded(results) == {i \in 1..Len(results) : results[i].error = None}

RECURSIVE SumTokens(_, _)
SumTokens(results, S) ==
  IF S = {} THEN 0
  ELSE LET i == CHOOSE j \in S : TRUE
       IN  estimate_tokens(results[i].response) + SumTokens(results, S \ {i})

\* a comparison turn numbered by the turns before it
ComparisonTurn_Unadvanced(c, prompt, results) ==
  [turn_number |-> Len(c.turns), ts |-> "datetime", type |-> "comparison",
   model |-> Absent, prompt |-> prompt, response |-> None, results |-> results,
   input_tokens |-> estimate_tokens(prompt) * Cardinality(Succeeded(results)),
   output_tokens |-> SumTokens(results, Succeeded(results))]

\* the turn dict add_comparison_turn builds
ComparisonTurn(c, prompt, results) ==
  [turn_number |-> Len(c.turns) + 1, ts |-> "datetime", type |-> "comparison",
   model |-> Absent, prompt |-> prompt, response |-> None, results |-> results,
   input_tokens |-> estimate_tokens(prompt) * Cardinality(Succeeded(results)),
   output_tokens |-> SumTokens(results, Succeeded(results))]

\* a _log_comparison_turn that writes the models that answered
ComparisonRows_Answered(c, turn) ==
  LET ok == SelectSeq(turn.results, LAMBDA res : res.error = None)
  IN  [i \in 1..Len(ok) |->
         [conversation_id |-> c.id, turn_number |-> turn.turn_number,
          model |-> ok[i].model, prompt |-> turn.prompt,
          response |-> ok[i].response]]

\* Conversation._log_comparison_turn: one row per result, all with the turn's number
ComparisonRows(c, turn) ==
  [i \in 1..Len(turn.results) |->
     [conversation_id |-> c.id, turn_number |-> turn.turn_number,
      model |-> turn.results[i].model, prompt |-> turn.prompt,
      response |-> turn.results[i].response]]

\* an add_comparison_turn that puts the prompt in the context
add_comparison_turn_WithPrompt(c, prompt, results) ==
  LET turn == ComparisonTurn(c, prompt, results)
  IN  [c EXCEPT !.turns = Append(@, turn),
                !.models_used = @ \cup {results[i].model : i \in Succeeded(results)},
                !.total_input_tokens = @ + turn.input_tokens,
                !.total_output_tokens = @ + turn.output_tokens,
                !.messages = Append(@, Message("user", prompt))]

\* Conversation.add_comparison_turn, without the ledger rows
add_comparison_turn(c, prompt, results) ==
  LET turn == ComparisonTurn(c, prompt, results)
  IN  [c EXCEPT !.turns = Append(@, turn),
                !.models_used = @ \cup {results[i].model : i \in Succeeded(results)},
                !.total_input_tokens = @ + turn.input_tokens,
                !.total_output_tokens = @ + turn.output_tokens]

\* _save_summary raises on a turn whose timestamp is a str (no isoformat)
SummaryRaises(c) == \E i \in 1..Len(c.turns) : c.turns[i].ts # "datetime"

\* one entry of the "turns" list of conversation.json
SummaryTurn(t) ==
  IF t.type = "comparison"
  THEN [turn |-> t.turn_number, type |-> "comparison", model |-> Absent,
        prompt |-> t.prompt, response |-> None, results |-> t.results]
  ELSE [turn |-> t.turn_number, type |-> "regular", model |-> t.model,
        prompt |-> t.prompt, response |-> t.response, results |-> <<>>]

\* Conversation._save_summary: the content of conversation.json
Summary(c) ==
  [conversation_id |-> c.id, total_turns |-> Len(c.turns),
   models_used |-> c.models_used,
   turns |-> [i \in 1..Len(c.turns) |-> SummaryTurn(c.turns[i])]]

\* to_dict raises on a turn without "model" or "response" (a comparison turn:
\* KeyError) and on a turn whose timestamp is a str (a restored turn)
to_dict_raises(c) ==
  \E i \in 1..Len(c.turns) : c.turns[i].model = Absent \/ c.turns[i].ts # "datetime"

\* t["prompt"][:100] + "..." if len(t["prompt"]) > 100 else t["prompt"]
Shorten(text, n) == IF Len(text) > n THEN Prefix(text, n) \o <<".",".",".">> ELSE text

\* Conversation.to_dict, when it does not raise; it holds no duration
to_dict(c) ==
  [id |-> c.id, total_turns |-> Len(c.turns), models_used |-> c.models_used,
   turns |-> [i \in 1..Len(c.turns) |->
                [turn |-> c.turns[i].turn_number, model |-> c.turns[i].model,
                 prompt |-> Shorten(c.turns[i].prompt, 100),
                 response |-> Shorten(c.turns[i].response, 200)]]]

\* Conversation.end_conversation: the row appended to conversations.csv
ConversationRow(c) ==
  [conversation_id |-> c.id, total_turns |-> Len(c.turns),
   models_used |-> c.models_used]

(***************************************************************************)
(* storage: the per-turn directories                                       *)
(***************************************************************************)
\* a directory of a conversation is keyed by <<turn number, rest of its name>>:
\* its name is f"turn_{turn_num:03d}_{rest}"
ComparisonPrefix == <<"c","o","m","p","a","r","i","s","o","n","_">>

TurnDirKey(turn_num, prompt) == <<turn_num, slugify(FirstLine(prompt))>>

ComparisonDirKey(turn_num, prompt) ==
  <<turn_num, ComparisonPrefix \o slugify(FirstLine(prompt))>>

\* a file is the sequence of its lines; <<>> is a file that does not exist
NoDir == [turn_jsonl |-> <<>>, comparison_jsonl |-> <<>>]

\* mkdir(parents=True, exist_ok=True)
Mkdir(dirs, key) ==
  IF key \in DOMAIN dirs THEN dirs
  ELSE [k \in DOMAIN dirs \cup {key} |-> IF k = key THEN NoDir ELSE dirs[k]]

\* save_turn_artifacts: the turn directory and its turn.jsonl
save_turn_artifacts(dirs, c, turn_num, model, prompt, result_md) ==
  LET key == TurnDirKey(turn_num, prompt)
      rec == [conversation_id |-> c.id, turn_number |-> turn_num, model |-> model,
              prompt |-> prompt, result_markdown |-> result_md]
  IN  [Mkdir(dirs, key) EXCEPT ![key].turn_jsonl = <<rec>>]

\* save_comparison_artifacts: the turn directory and its comparison.jsonl
save_comparison_artifacts(dirs, c, turn_num, prompt, results) ==
  LET key == ComparisonDirKey(turn_num, prompt)
      rec == [conversation_id |-> c.id, turn_number |-> turn_num,
              type |-> "comparison", prompt |-> prompt, results |-> results]
  IN  [Mkdir(dirs, key) EXCEPT ![key].comparison_jsonl = <<rec>>]

\* conv_dir.glob(f"turn_{turn_num:03d}_*")
Glob(dirs, turn_num) == {k \in DOMAIN dirs : k[1] = turn_num}

\* the turn numbers of a summary for which the glob finds a directory
GlobbedTurns(summary, dirs) ==
  {n \in {summary.turns[i].turn : i \in 1..Len(summary.turns)} : Glob(dirs, n) # {}}

\* turn_dirs[0] for every globbed turn number: glob yields the matching
\* directories in the order the file system lists them, which is any order
FirstDirs(summary, dirs) ==
  {f \in [GlobbedTurns(summary, dirs) -> DOMAIN dirs] :
     \A n \in DOMAIN f : f[n] \in Glob(dirs, n)}

\* the turn dict restore_conversation builds from turn.jsonl
RestoredTurn(turn_num, turn_info) ==
  [turn_number |-> turn_num, ts |-> "str", type |-> "none",
   model |-> turn_info.model, prompt |-> turn_info.prompt,
   response |-> turn_info.result_markdown, results |-> <<>>,
   input_tokens |-> 0, output_tokens |-> 0]

\* the loop of restore_conversation over summary["turns"]
RECURSIVE RestoreTurns(_, _, _, _)
RestoreTurns(c, turns, dirs, first) ==
  IF turns = <<>> THEN c
  ELSE LET turn_num == Head(turns).turn
           found == turn_num # 0 /\ turn_num \in DOMAIN first
                    /\ dirs[first[turn_num]].turn_jsonl # <<>>
           turn_info == dirs[first[turn_num]].turn_jsonl[1]
           next == IF found
                   THEN [c EXCEPT
                           !.messages = @ \o <<Message("user", turn_info.prompt),
                                               Message("assistant", turn_info.result_markdown)>>,
                           !.turns = Append(@, RestoredTurn(turn_num, turn_info))]
                   ELSE c
       IN  RestoreTurns(next, Tail(turns), dirs, first)

(***************************************************************************)
(* routes: the registry                                                    *)
(***************************************************************************)
\* for sid, c in ACTIVE_CONVERSATIONS.items(): if c.id == conv_id: ... break
Find(act, h, conv_id) ==
  IF \E i \in 1..Len(act) : h[act[i].obj].id = conv_id
  THEN CHOOSE i \in 1..Len(act) :
         /\ h[act[i].obj].id = conv_id
         /\ \A j \in 1..(i - 1) : h[act[j].obj].id # conv_id
  ELSE 0

\* ACTIVE_CONVERSATIONS[session_id] = conv
DictSet(act, sid, obj) ==
  IF \E i \in 1..Len(act) : act[i].sid = sid
  THEN [i \in 1..Len(act) |-> IF act[i].sid = sid THEN [sid |-> sid, obj |-> obj] ELSE act[i]]
  ELSE Append(act, [sid |-> sid, obj |-> obj])

\* del ACTIVE_CONVERSATIONS[session_to_remove]
DictDel(act, i) == SubSeq(act, 1, i - 1) \o SubSeq(act, i + 1, Len(act))

\* a Conversation object lives while the registry or a request refers to it
Referenced(act, rq) ==
  {act[i].obj : i \in 1..Len(act)} \cup {rq[r].conv : r \in DOMAIN rq}

Collect(h, act, rq) == [o \in DOMAIN h \cap Referenced(act, rq) |-> h[o]]

NewObj(h) == CHOOSE o \in 1..(Cardinality(DOMAIN h) + 1) : o \notin DOMAIN h

Put(f, k, v) == [x \in DOMAIN f \cup {k} |-> IF x = k THEN v ELSE f[x]]

Drop(f, k) == [x \in DOMAIN f \ {k} |-> f[x]]

\* jsonify(...): the fields of the answers the model keeps
Reply(op, status) ==
  [op |-> op, status |-> status, conversation_id |-> Absent, turn_number |-> 0,
   total_turns |-> 0, results |-> <<>>, events |-> <<>>, error |-> None]

Init ==
  /\ ACTIVE_CONVERSATIONS = <<>>
  /\ heap = <<>>
  /\ fresh = {}
  /\ disk = <<>>
  /\ TURNS_CSV = <<>>
  /\ CONVERSATIONS_CSV = <<>>
  /\ reqs = <<>>
  /\ reply = Reply("none", 0)
  /\ HISTORIES = <<>>
  /\ CSV_LOG = <<>>

(***************************************************************************)
(* routes: the handlers without a gateway call                             *)
(***************************************************************************)
\* POST /conversation/new
new_conversation(session_id, conv_id) ==
  /\ /\ conv_id \notin DOMAIN disk
     /\ LET o == NewObj(heap)
        IN  /\ disk' = Put(disk, conv_id, [summary |-> <<>>, dirs |-> <<>>, cut |-> FALSE,
                                        exports |-> {}])
            /\ ACTIVE_CONVERSATIONS' = DictSet(ACTIVE_CONVERSATIONS, session_id, o)
            /\ heap' = Collect(Put(heap, o, Conversation(conv_id)), ACTIVE_CONVERSATIONS', reqs)
            /\ fresh' = (fresh \cup {o}) \cap DOMAIN heap'
            /\ reply' = [Reply("new", 200) EXCEPT !.conversation_id = conv_id]
     /\ UNCHANGED <<TURNS_CSV, CONVERSATIONS_CSV, reqs>>
  /\ UNCHANGED <<HISTORIES, CSV_LOG>>

\* POST /conversation/clear-context
clear_context_route(conv_id) ==
  /\ LET i == Find(ACTIVE_CONVERSATIONS, heap, conv_id)
     IN  /\ IF i = 0
            THEN /\ reply' = Reply("clear", 404)
                 /\ UNCHANGED heap
            ELSE LET o == ACTIVE_CONVERSATIONS[i].obj
                 IN  /\ heap' = [heap EXCEPT ![o] = clear_context(@)]
                     /\ reply' = [Reply("clear", 200) EXCEPT
                                    !.conversation_id = conv_id,
                                    !.total_turns = Len(heap[o].turns)]
         /\ UNCHANGED <<ACTIVE_CONVERSATIONS, fresh, disk, TURNS_CSV,
                        CONVERSATIONS_CSV, reqs>>
  /\ UNCHANGED <<HISTORIES, CSV_LOG>>

\* POST /upload with a text file: content.decode('utf-8') and conv.add_file
upload_file(conv_id, file) ==
  /\ LET i == Find(ACTIVE_CONVERSATIONS, heap, conv_id)
     IN  /\ IF file.filename = <<>> \/ conv_id = Absent
            THEN /\ reply' = Reply("upload", 400)
                 /\ UNCHANGED heap
            ELSE IF i = 0
            THEN /\ reply' = Reply("upload", 404)
                 /\ UNCHANGED heap
            ELSE LET o == ACTIVE_CONVERSATIONS[i].obj
                 IN  /\ Len(heap[o].files) < MaxFiles
                     /\ heap' = [heap EXCEPT ![o] = add_file(@, file.filename, file.content)]
                     /\ reply' = [Reply("upload", 200) EXCEPT !.conversation_id = conv_id]
         /\ UNCHANGED <<ACTIVE_CONVERSATIONS, fresh, disk, TURNS_CSV,
                        CONVERSATIONS_CSV, reqs>>
  /\ UNCHANGED <<HISTORIES, CSV_LOG>>

\* conv.get_windowed_messages(window_size) on an active conversation: the
\* answer is the window size asked for and the list returned
windowed_messages(conv_id, window_size) ==
  /\ LET i == Find(ACTIVE_CONVERSATIONS, heap, conv_id)
     IN  /\ i # 0
         /\ reply' = [op |-> "window", status |-> 200, conversation_id |-> conv_id,
                      window_size |-> window_size,
                      messages |-> get_windowed_messages(heap[ACTIVE_CONVERSATIONS[i].obj],
                                                         window_size)]
         /\ UNCHANGED <<ACTIVE_CONVERSATIONS, heap, fresh, disk, TURNS_CSV,
                        CONVERSATIONS_CSV, reqs>>
  /\ UNCHANGED <<HISTORIES, CSV_LOG>>

\* POST /conversation/end
end_conversation(conv_id) ==
  /\ LET i == Find(ACTIVE_CONVERSATIONS, heap, conv_id)
     IN  IF i = 0
         THEN /\ reply' = Reply("end", 404)
              /\ UNCHANGED <<ACTIVE_CONVERSATIONS, heap, fresh, disk,
                             TURNS_CSV, CONVERSATIONS_CSV, reqs>>
         ELSE LET o == ACTIVE_CONVERSATIONS[i].obj
                  c == [heap[o] EXCEPT !.ended = TRUE]
              IN  /\ Len(CONVERSATIONS_CSV) < MaxEnds
                  /\ CONVERSATIONS_CSV' = Append(CONVERSATIONS_CSV, ConversationRow(c))
                  /\ IF SummaryRaises(c)
                     THEN \* the exception leaves the handler: 500, nothing removed
                          /\ heap' = [heap EXCEPT ![o] = c]
                          /\ reply' = Reply("end", 500)
                          /\ UNCHANGED <<ACTIVE_CONVERSATIONS, fresh, disk>>
                     ELSE /\ disk' = [disk EXCEPT ![c.id].summary = <<Summary(c)>>,
                                                   ![c.id].cut = FALSE]
                          /\ ACTIVE_CONVERSATIONS' = DictDel(ACTIVE_CONVERSATIONS, i)
                          /\ heap' = Collect([heap EXCEPT ![o] = c],
                                             ACTIVE_CONVERSATIONS', reqs)
                          /\ fresh' = fresh \cap DOMAIN heap'
                          /\ reply' = [Reply("end", 200) EXCEPT
                                         !.conversation_id = conv_id,
                                         !.total_turns = Len(c.turns)]
                  /\ UNCHANGED <<TURNS_CSV, reqs>>
  /\ UNCHANGED <<HISTORIES, CSV_LOG>>

\* POST /conversation/restore
restore_conversation(conv_id, session_id) ==
  /\ IF conv_id \notin DOMAIN disk \/ disk[conv_id].summary = <<>>
     THEN /\ reply' = Reply("restore", 404)
          /\ UNCHANGED <<ACTIVE_CONVERSATIONS, heap, fresh, disk,
                         TURNS_CSV, CONVERSATIONS_CSV, reqs>>
     ELSE IF disk[conv_id].cut
     THEN \* json.load raises: "Failed to restore conversation"
          /\ reply' = Reply("restore", 500)
          /\ UNCHANGED <<ACTIVE_CONVERSATIONS, heap, fresh, disk,
                         TURNS_CSV, CONVERSATIONS_CSV, reqs>>
     ELSE LET summary == disk[conv_id].summary[1]
              dirs == disk[conv_id].dirs
              o == NewObj(heap)
          IN  \E first \in FirstDirs(summary, dirs) :
                LET c == RestoreTurns(
                           [Conversation(conv_id) EXCEPT !.models_used = summary.models_used],
                           summary.turns, dirs, first)
                IN  /\ ACTIVE_CONVERSATIONS' = DictSet(ACTIVE_CONVERSATIONS, session_id, o)
                    /\ heap' = Collect(Put(heap, o, c), ACTIVE_CONVERSATIONS', reqs)
                    /\ fresh' = fresh \cap DOMAIN heap'
                    /\ reply' = [Reply("restore", 200) EXCEPT
                                   !.conversation_id = conv_id,
                                   !.total_turns = Len(c.turns)]
                    /\ UNCHANGED <<disk, TURNS_CSV, CONVERSATIONS_CSV, reqs>>
  /\ UNCHANGED <<HISTORIES, CSV_LOG>>

(***************************************************************************)
(* routes: send                                                            *)
(***************************************************************************)
\* full_prompt: the file context, when there is one, ahead of the prompt
FullPrompt(c, prompt) ==
  IF get_files_context(c) # <<>> THEN get_files_context(c) \o <<"\n">> \o prompt
  ELSE prompt

\* windowed_messages + [{"role": "user", "content": full_prompt}]
GatewayMessages(c, prompt) ==
  Append(get_windowed_messages(c, CONTEXT_WINDOW_SIZE), Message("user", FullPrompt(c, prompt)))

\* the locals of a request thread
Request(kind, o, model, models, prompt, messages) ==
  [kind |-> kind, conv |-> o, model |-> model, models |-> models,
   prompt |-> prompt, messages |-> messages, pc |-> "calling",
   tasks |-> <<>>, queue |-> <<>>, results |-> <<>>, events |-> <<>>,
   result |-> None, turn_num |-> 0, ordered_results |-> <<>>,
   \* history of the comparison: the tasks in the order they finished, the tasks
   \* as_completed has yielded, and how many had finished when it was entered
   finished |-> <<>>, yielded |-> <<>>, early |-> 0]

\* POST /conversation/send, up to the gateway call
send_message(r, conv_id, model, prompt) ==
  /\ /\ r \notin DOMAIN reqs
     /\ LET i == Find(ACTIVE_CONVERSATIONS, heap, conv_id)
        IN  IF prompt = <<>>
            THEN reply' = Reply("send", 400) /\ UNCHANGED reqs
            ELSE IF i = 0
            THEN reply' = Reply("send", 404) /\ UNCHANGED reqs
            ELSE LET o == ACTIVE_CONVERSATIONS[i].obj
                 IN  /\ Len(TURNS_CSV) < MaxRows
                     /\ reqs' = Put(reqs, r, Request("send", o, model, <<>>, prompt,
                                                      GatewayMessages(heap[o], prompt)))
                     /\ UNCHANGED reply
     /\ UNCHANGED <<ACTIVE_CONVERSATIONS, heap, fresh, disk, TURNS_CSV,
                    CONVERSATIONS_CSV>>
  /\ UNCHANGED <<HISTORIES, CSV_LOG>>

\* str(e) of what call_llm raises: the gateway's message, or the
\* AttributeError of model.startswith when the request names no model
UpstreamError(model) ==
  IF model = Absent THEN <<"N","o","n","e","T","y","p","e">> ELSE ErrorText

\* f"LLM call failed: {e}"
LLMCallFailed(e) ==
  <<"L","L","M"," ","c","a","l","l"," ","f","a","i","l","e","d",":"," ">> \o e

\* a handler that has put the prompt on the message list before the call
send_fails_PromptKept(r) ==
  /\ r \in DOMAIN reqs /\ reqs[r].kind = "send" /\ reqs[r].pc = "calling"
  /\ reqs' = Drop(reqs, r)
  /\ heap' = Collect([heap EXCEPT ![reqs[r].conv].messages =
                                    Append(@, Message("user", reqs[r].prompt))],
                     ACTIVE_CONVERSATIONS, reqs')
  /\ fresh' = fresh \cap DOMAIN heap'
  /\ reply' = [Reply("send", 500) EXCEPT
                 !.error = LLMCallFailed(UpstreamError(reqs[r].model))]
  /\ UNCHANGED <<ACTIVE_CONVERSATIONS, disk, TURNS_CSV, CONVERSATIONS_CSV>>
  /\ UNCHANGED <<HISTORIES, CSV_LOG>>

\* call_llm raises: the handler answers 500
send_fails(r) ==
  /\ /\ r \in DOMAIN reqs /\ reqs[r].kind = "send" /\ reqs[r].pc = "calling"
     /\ reqs' = Drop(reqs, r)
     /\ heap' = Collect(heap, ACTIVE_CONVERSATIONS, reqs')
     /\ fresh' = fresh \cap DOMAIN heap'
     /\ reply' = [Reply("send", 500) EXCEPT
                    !.error = LLMCallFailed(UpstreamError(reqs[r].model))]
     /\ UNCHANGED <<ACTIVE_CONVERSATIONS, disk, TURNS_CSV, CONVERSATIONS_CSV>>
  /\ UNCHANGED <<HISTORIES, CSV_LOG>>

\* call_llm returns: turn_num = len(conv.turns) + 1 and save_turn_artifacts
send_saves(r) ==
  /\ /\ r \in DOMAIN reqs /\ reqs[r].kind = "send" /\ reqs[r].pc = "calling"
     \* call_llm(None, ...) raises in is_claude_model: model.startswith
     /\ reqs[r].model # Absent
     /\ LET q == reqs[r]
            c == heap[q.conv]
            result == ResponseOf(q.model)
            turn_num == Len(c.turns) + 1
        IN  /\ disk' = [disk EXCEPT ![c.id].dirs =
                          save_turn_artifacts(@, c, turn_num, q.model, q.prompt, result)]
            /\ reqs' = [reqs EXCEPT ![r].pc = "saved", ![r].result = result,
                                    ![r].turn_num = turn_num]
     /\ UNCHANGED <<ACTIVE_CONVERSATIONS, heap, fresh, TURNS_CSV,
                    CONVERSATIONS_CSV, reply>>
  /\ UNCHANGED <<HISTORIES, CSV_LOG>>

\* conv.add_turn and the answer
send_adds(r) ==
  /\ /\ r \in DOMAIN reqs /\ reqs[r].kind = "send" /\ reqs[r].pc = "saved"
     /\ LET q == reqs[r]
            c == heap[q.conv]
            c2 == add_turn(c, q.model, q.prompt, q.result)
        IN  /\ TURNS_CSV' = Append(TURNS_CSV, TurnRow(c, c2.turns[Len(c2.turns)]))
            /\ reqs' = Drop(reqs, r)
            /\ heap' = Collect([heap EXCEPT ![q.conv] = c2], ACTIVE_CONVERSATIONS, reqs')
            /\ fresh' = fresh \cap DOMAIN heap'
            /\ reply' = [Reply("send", 200) EXCEPT
                           !.conversation_id = c.id, !.turn_number = q.turn_num,
                           !.total_turns = Len(c2.turns)]
     /\ UNCHANGED <<ACTIVE_CONVERSATIONS, disk, CONVERSATIONS_CSV>>
  /\ UNCHANGED <<HISTORIES, CSV_LOG>>

(***************************************************************************)
(* routes: compare and compare-stream                                      *)
(***************************************************************************)
\* a worker task that has not returned
Running == [done |-> FALSE, model |-> Absent, response |-> None, error |-> None]

\* a failed call answered with an empty response instead of None
ModelResult_NoNone(model_name, response, error) ==
  [model |-> model_name, response |-> IF error # None THEN <<>> ELSE response,
   error |-> error]

\* what call_model / call_model_with_stream returns
ModelResult(model_name, response, error) ==
  [model |-> model_name, response |-> response, error |-> error]

TaskResult(t) == ModelResult(t.model, t.response, t.error)

\* the orders in which a set can be listed
Orders(S) ==
  {f \in [1..Cardinality(S) -> S] : \A i, j \in DOMAIN f : f[i] = f[j] => i = j}

\* results_dict = {r["model"]: r for r in results}: the last result of a model wins
results_dict(results) ==
  [m \in {results[i].model : i \in 1..Len(results)} |->
     results[CHOOSE i \in 1..Len(results) :
               /\ results[i].model = m
               /\ \A j \in (i + 1)..Len(results) : results[j].model # m]]

\* the results left in the order as_completed yielded them
ordered_results_Unsorted(models, results) == results

\* [results_dict[model] for model in models if model in results_dict]
RECURSIVE ordered_results(_, _)
ordered_results(models, results) ==
  IF models = <<>> THEN <<>>
  ELSE (IF Head(models) \in DOMAIN results_dict(results)
        THEN <<results_dict(results)[Head(models)]>> ELSE <<>>)
       \o ordered_results(Tail(models), results)

InitEvent(models, conv_id) ==
  [type |-> "init", models |-> models, conversation_id |-> conv_id]

\* a result event whose counter starts at 0
ResultEvent_FromZero(result, completed, total) ==
  [type |-> "result", model |-> result.model, response |-> result.response,
   error |-> result.error, completed |-> completed - 1, total |-> total]

\* one result event of generate_sse
ResultEvent(result, completed, total) ==
  [type |-> "result", model |-> result.model, response |-> result.response,
   error |-> result.error, completed |-> completed, total |-> total]

CompleteEvent(conv_id, turn_num, results, total_turns) ==
  [type |-> "complete", conversation_id |-> conv_id, turn_number |-> turn_num,
   results |-> results, total_turns |-> total_turns]

\* the common start of the two handlers: validation, lookup, the message list,
\* and executor.submit for every model
StartComparison(r, kind, conv_id, models, prompt) ==
  /\ /\ r \notin DOMAIN reqs
     /\ LET i == Find(ACTIVE_CONVERSATIONS, heap, conv_id)
        IN  IF prompt = <<>> \/ models = <<>>
            THEN reply' = Reply(kind, 400) /\ UNCHANGED reqs
            ELSE IF i = 0
            THEN reply' = Reply(kind, 404) /\ UNCHANGED reqs
            ELSE LET o == ACTIVE_CONVERSATIONS[i].obj
                     q == Request(kind, o, Absent, models, prompt,
                                  GatewayMessages(heap[o], prompt))
                 IN  /\ Len(TURNS_CSV) < MaxRows
                     /\ reqs' = Put(reqs, r,
                          [q EXCEPT !.pc = "submitted",
                                    !.tasks = [k \in 1..Len(models) |-> Running],
                                    !.events = IF kind = "stream"
                                               THEN <<InitEvent(models, heap[o].id)>>
                                               ELSE <<>>])
                     /\ UNCHANGED reply
     /\ UNCHANGED <<ACTIVE_CONVERSATIONS, heap, fresh, disk, TURNS_CSV,
                    CONVERSATIONS_CSV>>
  /\ UNCHANGED <<HISTORIES, CSV_LOG>>

\* POST /conversation/compare, up to the submission of the tasks
compare_models(r, conv_id, models, prompt) ==
  StartComparison(r, "compare", conv_id, models, prompt)

\* POST /conversation/compare-stream: the init event and the submission of the tasks
compare_models_stream(r, conv_id, models, prompt) ==
  StartComparison(r, "stream", conv_id, models, prompt)

\* a worker task that logs its own row to turns.csv when it returns
call_model_Logs(r, k, ok) ==
  /\ /\ r \in DOMAIN reqs /\ reqs[r].kind \in {"compare", "stream"}
     /\ k \in DOMAIN reqs[r].tasks /\ ~reqs[r].tasks[k].done
     /\ LET q == reqs[r]
            m == q.models[k]
            res == IF ok THEN ModelResult(m, ResponseOf(m), None)
                   ELSE ModelResult(m, None, ErrorText)
        IN  /\ reqs' = [reqs EXCEPT
                          ![r].tasks[k] = [done |-> TRUE, model |-> res.model,
                                           response |-> res.response, error |-> res.error],
                          ![r].queue = IF q.pc = "waiting" THEN Append(@, k) ELSE @,
                          ![r].finished = Append(@, k)]
            /\ TURNS_CSV' = Append(TURNS_CSV,
                                   [conversation_id |-> heap[q.conv].id,
                                    turn_number |-> Len(heap[q.conv].turns) + 1,
                                    model |-> m, prompt |-> q.prompt,
                                    response |-> res.response])
     /\ UNCHANGED <<ACTIVE_CONVERSATIONS, heap, fresh, disk, CONVERSATIONS_CSV, reply>>
  /\ UNCHANGED <<HISTORIES, CSV_LOG>>

\* a worker task that calls the gateway again when the call raised
call_model_Retries(r, k, ok) ==
  /\ /\ r \in DOMAIN reqs /\ reqs[r].kind \in {"compare", "stream"}
     /\ k \in DOMAIN reqs[r].tasks /\ ~reqs[r].tasks[k].done
     /\ LET q == reqs[r]
            m == q.models[k]
            res == IF ok THEN ModelResult(m, ResponseOf(m), None)
                   ELSE ModelResult(m, None, ErrorText)
        IN  reqs' = [reqs EXCEPT
                       ![r].tasks[k] = IF ok \/ (\E i \in DOMAIN q.finished : q.finished[i] = k)
                                       THEN [done |-> TRUE, model |-> res.model,
                                             response |-> res.response, error |-> res.error]
                                       ELSE @,
                       ![r].queue = IF q.pc = "waiting" /\ (ok \/ (\E i \in DOMAIN q.finished : q.finished[i] = k))
                                    THEN Append(@, k) ELSE @,
                       ![r].finished = Append(@, k)]
     /\ UNCHANGED <<ACTIVE_CONVERSATIONS, heap, fresh, disk, TURNS_CSV,
                    CONVERSATIONS_CSV, reply>>
  /\ UNCHANGED <<HISTORIES, CSV_LOG>>

\* a worker task returns: call_llm returned (ok) or raised
call_model(r, k, ok) ==
  /\ /\ r \in DOMAIN reqs /\ reqs[r].kind \in {"compare", "stream"}
     /\ k \in DOMAIN reqs[r].tasks /\ ~reqs[r].tasks[k].done
     /\ LET q == reqs[r]
            m == q.models[k]
            res == IF ok THEN ModelResult(m, ResponseOf(m), None)
                   ELSE ModelResult(m, None, ErrorText)
        IN  reqs' = [reqs EXCEPT
                       ![r].tasks[k] = [done |-> TRUE, model |-> res.model,
                                        response |-> res.response, error |-> res.error],
                       \* the waiter of as_completed records the finishing order
                       ![r].queue = IF q.pc = "waiting" THEN Append(@, k) ELSE @,
                       ![r].finished = Append(@, k)]
     /\ UNCHANGED <<ACTIVE_CONVERSATIONS, heap, fresh, disk, TURNS_CSV,
                    CONVERSATIONS_CSV, reply>>
  /\ UNCHANGED <<HISTORIES, CSV_LOG>>

\* concurrent.futures.as_completed(futures) is entered: the futures that have
\* finished by now are yielded first, in the order of a set
as_completed(r) ==
  /\ /\ r \in DOMAIN reqs /\ reqs[r].pc = "submitted"
     /\ \E order \in Orders({k \in DOMAIN reqs[r].tasks : reqs[r].tasks[k].done}) :
          reqs' = [reqs EXCEPT ![r].pc = "waiting", ![r].queue = order,
                               ![r].early = Len(order)]
     /\ UNCHANGED <<ACTIVE_CONVERSATIONS, heap, fresh, disk, TURNS_CSV,
                    CONVERSATIONS_CSV, reply>>
  /\ UNCHANGED <<HISTORIES, CSV_LOG>>

\* a loop that takes the newest finished future first
next_result_Newest(r) ==
  /\ /\ r \in DOMAIN reqs /\ reqs[r].pc = "waiting" /\ reqs[r].queue # <<>>
     /\ LET q == reqs[r]
            k == q.queue[Len(q.queue)]
            result == TaskResult(q.tasks[k])
            collected == Append(q.results, result)
        IN  reqs' = [reqs EXCEPT
                       ![r].queue = SubSeq(@, 1, Len(@) - 1),
                       ![r].yielded = Append(@, k),
                       ![r].results = collected,
                       ![r].events = IF q.kind = "stream"
                                     THEN Append(@, ResultEvent(result, Len(collected),
                                                                Len(q.models)))
                                     ELSE @]
     /\ UNCHANGED <<ACTIVE_CONVERSATIONS, heap, fresh, disk, TURNS_CSV,
                    CONVERSATIONS_CSV, reply>>
  /\ UNCHANGED <<HISTORIES, CSV_LOG>>

\* a loop that waits for every future before it takes the first result
next_result_AfterAll(r) ==
  /\ /\ r \in DOMAIN reqs /\ reqs[r].pc = "waiting" /\ reqs[r].queue # <<>>
     /\ \A k \in DOMAIN reqs[r].tasks : reqs[r].tasks[k].done
     /\ LET q == reqs[r]
            result == TaskResult(q.tasks[Head(q.queue)])
            collected == Append(q.results, result)
        IN  reqs' = [reqs EXCEPT
                       ![r].queue = Tail(@),
                       ![r].yielded = Append(@, Head(q.queue)),
                       ![r].results = collected,
                       ![r].events = IF q.kind = "stream"
                                     THEN Append(@, ResultEvent(result, Len(collected),
                                                                Len(q.models)))
                                     ELSE @]
     /\ UNCHANGED <<ACTIVE_CONVERSATIONS, heap, fresh, disk, TURNS_CSV,
                    CONVERSATIONS_CSV, reply>>
  /\ UNCHANGED <<HISTORIES, CSV_LOG>>

\* the loop body over as_completed: future.result() is collected and, in the
\* streaming handler, its result event is yielded
next_result(r) ==
  /\ /\ r \in DOMAIN reqs /\ reqs[r].pc = "waiting" /\ reqs[r].queue # <<>>
     /\ LET q == reqs[r]
            result == TaskResult(q.tasks[Head(q.queue)])
            collected == Append(q.results, result)
        IN  reqs' = [reqs EXCEPT
                       ![r].queue = Tail(@),
                       ![r].yielded = Append(@, Head(q.queue)),
                       ![r].results = collected,
                       ![r].events = IF q.kind = "stream"
                                     THEN Append(@, ResultEvent(result, Len(collected),
                                                                Len(q.models)))
                                     ELSE @]
     /\ UNCHANGED <<ACTIVE_CONVERSATIONS, heap, fresh, disk, TURNS_CSV,
                    CONVERSATIONS_CSV, reply>>
  /\ UNCHANGED <<HISTORIES, CSV_LOG>>

\* after the executor block: ordered_results, turn_num and save_comparison_artifacts
comparison_saves(r) ==
  /\ /\ r \in DOMAIN reqs /\ reqs[r].pc = "waiting"
     /\ Len(reqs[r].results) = Len(reqs[r].models)
     /\ LET q == reqs[r]
            c == heap[q.conv]
            ordered == ordered_results(q.models, q.results)
            turn_num == Len(c.turns) + 1
        IN  /\ disk' = [disk EXCEPT ![c.id].dirs =
                          save_comparison_artifacts(@, c, turn_num, q.prompt, ordered)]
            /\ reqs' = [reqs EXCEPT ![r].pc = "saved", ![r].turn_num = turn_num,
                                    ![r].ordered_results = ordered]
     /\ UNCHANGED <<ACTIVE_CONVERSATIONS, heap, fresh, TURNS_CSV,
                    CONVERSATIONS_CSV, reply>>
  /\ UNCHANGED <<HISTORIES, CSV_LOG>>

\* conv.add_comparison_turn and the answer (the complete event when streaming)
comparison_adds(r) ==
  /\ /\ r \in DOMAIN reqs /\ reqs[r].kind \in {"compare", "stream"} /\ reqs[r].pc = "saved"
     /\ LET q == reqs[r]
            c == heap[q.conv]
            c2 == add_comparison_turn(c, q.prompt, q.ordered_results)
        IN  /\ TURNS_CSV' = TURNS_CSV \o ComparisonRows(c, c2.turns[Len(c2.turns)])
            /\ reqs' = Drop(reqs, r)
            /\ heap' = Collect([heap EXCEPT ![q.conv] = c2], ACTIVE_CONVERSATIONS, reqs')
            /\ fresh' = fresh \cap DOMAIN heap'
            /\ reply' = [Reply(q.kind, 200) EXCEPT
                           !.conversation_id = c.id,
                           \* only the complete event carries "turn_number"
                           !.turn_number = IF q.kind = "stream" THEN q.turn_num ELSE 0,
                           !.total_turns = Len(c2.turns),
                           !.results = q.ordered_results,
                           !.events = IF q.kind = "stream"
                                      THEN Append(q.events,
                                                  CompleteEvent(c.id, q.turn_num,
                                                                q.ordered_results,
                                                                Len(c2.turns)))
                                      ELSE <<>>]
     /\ UNCHANGED <<ACTIVE_CONVERSATIONS, disk, CONVERSATIONS_CSV>>
  /\ UNCHANGED <<HISTORIES, CSV_LOG>>

(***************************************************************************)
(* Specifications                                                          *)
(***************************************************************************)
\* the ids of the conversations in the registry, and of those saved on disk
ActiveIds == {heap[ACTIVE_CONVERSATIONS[i].obj].id : i \in 1..Len(ACTIVE_CONVERSATIONS)}

SavedIds == {conv_id \in DOMAIN disk : disk[conv_id].summary # <<>>}

\* the model lists of the comparison requests of Spec
ModelLists == {<<ModelB>>}

Idle == reqs = <<>>

\* the positions of a model list
TaskIds == 1..3

\* a request in flight takes its next step
Continue(r) ==
  \/ send_fails(r)
  \/ send_saves(r)
  \/ send_adds(r)
  \/ \E k \in TaskIds, ok \in BOOLEAN : call_model(r, k, ok)
  \/ as_completed(r)
  \/ next_result(r)
  \/ comparison_saves(r)
  \/ comparison_adds(r)

\* one client, as the user interface drives the server: a request names a
\* conversation the client knows, and is sent when the last one was answered.
\* The life of a conversation: created, continued, ended, restored, continued.
Next ==
  \/ Idle /\ \E sid \in Sessions, conv_id \in ConvIds : new_conversation(sid, conv_id)
  \/ Idle /\ \E conv_id \in ActiveIds : end_conversation(conv_id)
  \/ Idle /\ \E conv_id \in SavedIds, sid \in Sessions : restore_conversation(conv_id, sid)
  \/ Idle /\ \E conv_id \in ActiveIds, p \in Prompts : send_message(1, conv_id, ModelA, p)
  \/ Idle /\ \E conv_id \in ActiveIds, ms \in ModelLists :
               compare_models(1, conv_id, ms, PromptHi)
  \/ Idle /\ \E conv_id \in ActiveIds, ms \in ModelLists :
               compare_models_stream(1, conv_id, ms, PromptHi)
  \/ Continue(1)

Spec == Init /\ [][Next]_vars

\* the model lists of the comparison requests of SpecLive
LiveLists == {<<ModelB>>, <<ModelA, ModelB>>}

\* one client and the context of a live conversation: created, continued, cleared
NextLive ==
  \/ Idle /\ \E sid \in Sessions, conv_id \in ConvIds : new_conversation(sid, conv_id)
  \/ Idle /\ \E conv_id \in ActiveIds : clear_context_route(conv_id)
  \/ Idle /\ \E conv_id \in ActiveIds, file \in Files : upload_file(conv_id, file)
  \/ Idle /\ \E conv_id \in ActiveIds : send_message(1, conv_id, ModelA, PromptHi)
  \/ Idle /\ \E conv_id \in ActiveIds, ms \in LiveLists :
               compare_models(1, conv_id, ms, PromptTwo)
  \/ Idle /\ \E conv_id \in ActiveIds, ms \in ModelLists :
               compare_models_stream(1, conv_id, ms, PromptTwo)
  \/ Continue(1)

SpecLive == Init /\ [][NextLive]_vars

\* a send request in flight takes its next step
SendContinue(r) ==
  \/ send_fails(r)
  \/ send_saves(r)
  \/ send_adds(r)

\* the context window of a conversation that grows by regular turns and is
\* cleared, read with every window size
NextWindow ==
  \/ Idle /\ \E sid \in Sessions, conv_id \in ConvIds : new_conversation(sid, conv_id)
  \/ Idle /\ \E conv_id \in ActiveIds : clear_context_route(conv_id)
  \/ Idle /\ \E conv_id \in ActiveIds, p \in Prompts : send_message(1, conv_id, ModelA, p)
  \/ Idle /\ \E conv_id \in ActiveIds, window_size \in 0..MaxWindow :
               windowed_messages(conv_id, window_size)
  \/ SendContinue(1)

SpecWindow == Init /\ [][NextWindow]_vars

\* the send requests of a client that leaves fields out or names a
\* conversation that is not active: never created, or ended
NextErrors ==
  \/ Idle /\ \E sid \in Sessions, conv_id \in ConvIds : new_conversation(sid, conv_id)
  \/ Idle /\ \E conv_id \in ActiveIds : end_conversation(conv_id)
  \/ Idle /\ \E conv_id \in ConvIds \cup {Absent}, model \in {ModelA, Absent},
                  p \in Prompts \cup {<<>>} : send_message(1, conv_id, model, p)
  \/ SendContinue(1)

SpecErrors == Init /\ [][NextErrors]_vars

\* the model lists of the comparison requests of SpecCompare: three models,
\* two in the other order, and a model named twice
CompareLists == {<<ModelA, ModelB, ModelC>>, <<ModelB, ModelA>>, <<ModelA, ModelA>>}

\* the steps of the request thread of a comparison
RequestThread(r) ==
  \/ as_completed(r)
  \/ next_result(r)
  \/ comparison_saves(r)
  \/ comparison_adds(r)

\* one conversation and its comparisons, every completion order of the tasks
NextCompare ==
  \/ Idle /\ \E sid \in Sessions, conv_id \in ConvIds : new_conversation(sid, conv_id)
  \/ Idle /\ \E conv_id \in ActiveIds, ms \in CompareLists :
               compare_models(1, conv_id, ms, PromptTwo)
  \/ Idle /\ \E conv_id \in ActiveIds, ms \in CompareLists :
               compare_models_stream(1, conv_id, ms, PromptTwo)
  \/ \E k \in TaskIds, ok \in BOOLEAN : call_model(1, k, ok)
  \/ RequestThread(1)

SpecCompare == Init /\ [][NextCompare]_vars

\* the request thread is scheduled: it enters the as_completed loop and takes
\* each result that is ready; a worker task may never return (there is no
\* cancellation, and call_llm returns when the backend does)
SpecCompareFair ==
  SpecCompare /\ WF_vars(as_completed(1)) /\ WF_vars(next_result(1))

(***************************************************************************)
(* Properties                                                              *)
(***************************************************************************)
Range(f) == {f[x] : x \in DOMAIN f}

Last(q) == q[Len(q)]

IsComparison(q) == q.kind \in {"compare", "stream"}

\* the comparison requests that are answered in this step
Answered == {r \in DOMAIN reqs \ DOMAIN reqs' : IsComparison(reqs[r])}

AllDone(q) == \A k \in DOMAIN q.tasks : q.tasks[k].done

\* the tasks of a request that called the model m, and how they ended
TasksOf(q, m) == {k \in DOMAIN q.tasks : q.models[k] = m}

Failed(q, k) == q.tasks[k].done /\ q.tasks[k].error # None

\* C2: the aggregate a comparison answers with (the results of the blocking
\* answer, the results of the complete event) holds one result per entry of
\* the model list, and the i-th result is of the i-th model of the list,
\* whatever the order in which the tasks finished.
C2_AggregateInRequestOrder ==
  [][\A r \in Answered :
       LET q == reqs[r]
           agg == reply'.results
       IN  /\ Len(agg) = Len(q.models)
           /\ \A i \in 1..Len(agg) : agg[i].model = q.models[i]
           /\ q.kind = "stream" => Last(reply'.events).results = agg]_vars

\* a comparison is about to be recorded whose first finished task is not the
\* first model of the list
C2_Witness ==
  \E r \in DOMAIN reqs :
    /\ reqs[r].pc = "saved" /\ Len(reqs[r].models) = 3
    /\ reqs[r].models[reqs[r].finished[1]] # reqs[r].models[1]
    /\ reqs[r].results[1].model # reqs[r].models[1]
    /\ reqs[r].ordered_results[1].model = reqs[r].models[1]

\* C3: in the aggregate of a comparison every result has exactly one of
\* response and error null; a model all of whose calls failed has a non-null
\* error and a null response, a model all of whose calls succeeded has a
\* non-null response and a null error, and the request records its comparison
\* turn with these results although a call failed.
C3_FailureIsolated ==
  [][\A r \in Answered :
       LET q == reqs[r]
           agg == reply'.results
       IN  /\ \A i \in 1..Len(agg) : (agg[i].response = None) # (agg[i].error = None)
           /\ \A i \in 1..Len(q.models) :
                LET m == q.models[i]
                IN  /\ i \in DOMAIN agg /\ agg[i].model = m
                    /\ (\A k \in TasksOf(q, m) : Failed(q, k))
                         => agg[i].error # None /\ agg[i].response = None
                    /\ (\A k \in TasksOf(q, m) : ~Failed(q, k))
                         => agg[i].response = ResponseOf(m) /\ agg[i].error = None
           /\ reply'.status = 200
           /\ q.conv \in DOMAIN heap'
           /\ Len(heap'[q.conv].turns) = Len(heap[q.conv].turns) + 1
           /\ Last(heap'[q.conv].turns).type = "comparison"
           /\ Last(heap'[q.conv].turns).results = agg]_vars

\* the comparison over A, B, C was answered: B failed, A and C did not
C3_Witness ==
  /\ reply.op \in {"compare", "stream"} /\ reply.status = 200
  /\ Len(reply.results) = 3
  /\ reply.results[1].error = None /\ reply.results[1].response # None
  /\ reply.results[2].error # None /\ reply.results[2].response = None
  /\ reply.results[3].error = None /\ reply.results[3].response # None
  /\ \E o \in DOMAIN heap :
       heap[o].turns # <<>> /\ Last(heap[o].turns).results = reply.results

\* the events of a streaming comparison that is answered, when its result
\* events follow the tasks in the given order
StreamEvents(q, order) ==
  <<InitEvent(q.models, heap[q.conv].id)>>
    \o [j \in 1..Len(q.models) |->
          ResultEvent(TaskResult(q.tasks[order[j]]), j, Len(q.models))]
    \o <<CompleteEvent(heap[q.conv].id, Len(heap[q.conv].turns) + 1,
                       q.ordered_results, Len(heap[q.conv].turns) + 1)>>

\* C4, as claimed: the events of a streaming comparison over N models are one
\* init event, then the N result events in the order in which the tasks
\* finished, then one complete event with the request-ordered aggregate and a
\* total_turns that counts the new turn.
C4_EventsInCompletionOrder ==
  [][\A r \in Answered :
       reqs[r].kind = "stream" => reply'.events = StreamEvents(reqs[r], reqs[r].finished)]_vars

\* C4, amended: one init event, then the N result events in the order in which
\* as_completed yields the tasks, then one complete event with the
\* request-ordered aggregate and a total_turns that counts the new turn.  The
\* tasks that finish after the request thread entered as_completed are yielded
\* in the order they finish; the tasks that had finished before come first, in
\* any order.
C4_EventsInYieldOrder ==
  [][\A r \in Answered :
       LET q == reqs[r]
           N == Len(q.models)
       IN  q.kind = "stream" =>
             /\ reply'.events = StreamEvents(q, q.yielded)
             /\ \A i \in 1..N : Last(reply'.events).results[i].model = q.models[i]
             /\ Last(reply'.events).total_turns = Len(heap'[q.conv].turns)
             /\ Len(q.yielded) = N /\ Len(q.finished) = N
             /\ \A j \in (q.early + 1)..N : q.yielded[j] = q.finished[j]
             /\ {q.yielded[j] : j \in 1..q.early} = {q.finished[j] : j \in 1..q.early}]_vars

\* a streaming comparison is about to be answered: two tasks had finished
\* before as_completed was entered and were yielded in the other order, and a
\* third finished later
C4_Witness ==
  \E r \in DOMAIN reqs :
    /\ reqs[r].kind = "stream" /\ reqs[r].pc = "saved"
    /\ reqs[r].early = 2 /\ Len(reqs[r].models) = 3
    /\ reqs[r].yielded[1] = reqs[r].finished[2]
    /\ reqs[r].yielded[3] = reqs[r].finished[3]

\* a task of the streaming comparison in flight has finished / has had its
\* result event yielded
StreamFinished(k) ==
  /\ 1 \in DOMAIN reqs /\ reqs[1].kind = "stream"
  /\ k \in DOMAIN reqs[1].tasks /\ reqs[1].tasks[k].done

StreamYielded(k) ==
  /\ 1 \in DOMAIN reqs /\ reqs[1].kind = "stream"
  /\ k \in Range(reqs[1].yielded)

\* C5, as claimed: when task a finishes while task b is still running, the
\* result event of a is delivered before b finishes; so no state has a task
\* that finished after a while the event of a is still to come.
C5_DeliveredBeforeOthersFinish ==
  \A r \in DOMAIN reqs :
    reqs[r].kind = "stream" =>
      \A i, j \in 1..Len(reqs[r].finished) :
        i < j => reqs[r].finished[i] \in Range(reqs[r].yielded)

\* C5, amended: the result event of a task that has finished is delivered
\* whether or not any other task ever finishes: the request thread yields it
\* without waiting for the tasks still running, though a task that finishes in
\* the meantime may finish before the event is written.
C5_DeliveredWithoutWaiting ==
  \A k \in TaskIds : StreamFinished(k) ~> StreamYielded(k)

\* the result event of one task is out while another task is still running
C5_Witness ==
  /\ 1 \in DOMAIN reqs /\ reqs[1].kind = "stream"
  /\ \E a, b \in DOMAIN reqs[1].tasks :
       /\ a \in Range(reqs[1].yielded)
       /\ Last(reqs[1].events).type = "result"
       /\ ~reqs[1].tasks[b].done

\* a worker task returns in this step
TaskStep ==
  \E r \in DOMAIN reqs \cap DOMAIN reqs' :
    \E k \in DOMAIN reqs[r].tasks : ~reqs[r].tasks[k].done /\ reqs'[r].tasks[k].done

\* C6: a comparison request that dispatched its tasks leaves the turn log of
\* its conversation alone until it is answered, and in the step that answers
\* it every task has finished and exactly one comparison turn is appended; its
\* turn directory is written only when every task has finished; a step in
\* which a worker task returns changes no turn log, no turn directory and no
\* row of turns.csv.
C6_OneTurnAfterAllTasks ==
  [][/\ TaskStep => UNCHANGED <<heap, disk, TURNS_CSV>>
     /\ \A r \in DOMAIN reqs :
          LET q == reqs[r]
          IN  IsComparison(q) =>
                IF r \in DOMAIN reqs'
                THEN /\ heap'[q.conv].turns = heap[q.conv].turns
                     /\ TURNS_CSV' = TURNS_CSV
                     /\ disk' # disk => AllDone(q)
                ELSE /\ AllDone(q)
                     /\ Len(heap'[q.conv].turns) = Len(heap[q.conv].turns) + 1
                     /\ SubSeq(heap'[q.conv].turns, 1, Len(heap[q.conv].turns))
                          = heap[q.conv].turns
                     /\ Last(heap'[q.conv].turns).type = "comparison"
                     /\ Len(TURNS_CSV') = Len(TURNS_CSV) + Len(q.models)
                     /\ disk' = disk]_vars

\* a comparison over three models was answered and its turn is in the log
C6_Witness ==
  /\ reply.op \in {"compare", "stream"} /\ reply.status = 200
  /\ Len(reply.results) = 3
  /\ \E o \in DOMAIN heap :
       /\ heap[o].turns # <<>>
       /\ Last(heap[o].turns).type = "comparison"
       /\ Len(TURNS_CSV) >= 3

\* the turn a step appends to the turn log of an object, if it appends one
Appended(o) ==
  IF /\ Len(heap'[o].turns) = Len(heap[o].turns) + 1
     /\ SubSeq(heap'[o].turns, 1, Len(heap[o].turns)) = heap[o].turns
  THEN <<Last(heap'[o].turns)>>
  ELSE <<>>

\* C1: the message list of every conversation has even length; a step that
\* appends a regular turn appends exactly its user message and its assistant
\* message, a step that appends a comparison turn leaves the message list as
\* it is, and a step that appends no turn leaves it or empties it
\* (clear_context).
C1_MessagesEven ==
  [][/\ \A o \in DOMAIN heap' : Len(heap'[o].messages) % 2 = 0
     /\ \A o \in DOMAIN heap \cap DOMAIN heap' :
          LET c == heap[o]
              d == heap'[o]
              new == Appended(o)
          IN  /\ d.turns = c.turns \/ new # <<>>
              /\ new # <<>> /\ new[1].type = "regular" =>
                   d.messages = c.messages \o <<Message("user", new[1].prompt),
                                                Message("assistant", new[1].response)>>
              /\ new # <<>> /\ new[1].type = "comparison" => d.messages = c.messages
              /\ new = <<>> => d.messages \in {c.messages, <<>>}]_vars

\* a conversation holds a regular turn and then a comparison turn, and the two
\* messages of the regular turn
C1_Witness ==
  \E o \in DOMAIN heap :
    /\ Len(heap[o].turns) = 2
    /\ heap[o].turns[1].type = "regular"
    /\ heap[o].turns[2].type = "comparison"
    /\ Len(heap[o].messages) = 2

\* C7: in a conversation made by new_conversation, the turns are numbered by
\* their place in the turn log: the N-th turn added, regular or comparison,
\* has turn_number N.
C7_FreshNumbering ==
  \A o \in fresh \cap DOMAIN heap :
    \A i \in 1..Len(heap[o].turns) : heap[o].turns[i].turn_number = i

\* a fresh conversation holds a comparison turn, a regular turn and one more
C7_Witness ==
  \E o \in fresh \cap DOMAIN heap :
    /\ Len(heap[o].turns) = 3
    /\ heap[o].turns[1].type = "comparison"
    /\ heap[o].turns[2].type = "regular"

\* C8, as claimed: in every active conversation, one restored from disk and
\* continued included, the turn numbers of the turn log are strictly
\* increasing, so pairwise distinct.
C8_NumbersIncrease ==
  \A n \in 1..Len(ACTIVE_CONVERSATIONS) :
    LET turns == heap[ACTIVE_CONVERSATIONS[n].obj].turns
    IN  \A i, j \in 1..Len(turns) :
          i < j => turns[i].turn_number < turns[j].turn_number

\* the messages of the regular turns of a summary, in its order
RECURSIVE RegularMessages(_)
RegularMessages(turns) ==
  IF turns = <<>> THEN <<>>
  ELSE (IF Head(turns).type = "regular"
        THEN <<Message("user", Head(turns).prompt),
               Message("assistant", Head(turns).response)>>
        ELSE <<>>) \o RegularMessages(Tail(turns))

\* the conversation objects a restore builds in this step
Restored == {o \in DOMAIN heap' \ DOMAIN heap : reply'.op = "restore"}

Types(summary) == {summary.turns[i].type : i \in 1..Len(summary.turns)}

\* C9, as claimed: a conversation that was ended with regular turns only is
\* restored with the user and assistant messages of those turns, in their
\* order.
C9_RestoreRoundTrip ==
  [][\A o \in Restored :
       LET summary == disk[heap'[o].id].summary[1]
       IN  Types(summary) = {"regular"} =>
             heap'[o].messages = RegularMessages(summary.turns)]_vars

\* C10, as claimed: a conversation that was ended with regular and comparison
\* turns is restored with the messages a live conversation holds after the
\* same turns: those of the regular turns, in their order, and none for a
\* comparison turn.
C10_RestoreMixed ==
  [][\A o \in Restored :
       LET summary == disk[heap'[o].id].summary[1]
       IN  Types(summary) = {"regular", "comparison"} =>
             heap'[o].messages = RegularMessages(summary.turns)]_vars

\* C11, as claimed: end on an active conversation, made by new or by restore,
\* appends the conversation's row to conversations.csv, writes
\* conversation.json with the turns of that row and removes the conversation
\* from the active set, so that the id is not found afterwards.
C11_EndIsTerminal ==
  [][Len(CONVERSATIONS_CSV') > Len(CONVERSATIONS_CSV) =>
       LET row == Last(CONVERSATIONS_CSV')
       IN  /\ reply'.op = "end" /\ reply'.status = 200
           /\ row.conversation_id \notin ActiveIds'
           /\ disk'[row.conversation_id].summary # <<>>
           /\ disk'[row.conversation_id].summary[1].total_turns = row.total_turns]_vars

\* a request was answered in this step by the handler op, with status 200
Handled(op) ==
  /\ reqs = <<>> /\ reqs' = <<>>
  /\ reply'.op = op /\ reply'.status = 200

\* C12: clear-context on an active conversation empties its message list and
\* leaves its turn log, its token totals, its files and its models as they
\* were; it changes no other conversation and nothing on disk or in the
\* ledgers.
C12_ClearContextFrame ==
  [][Handled("clear") =>
       /\ UNCHANGED <<ACTIVE_CONVERSATIONS, disk, TURNS_CSV, CONVERSATIONS_CSV>>
       /\ DOMAIN heap' = DOMAIN heap
       /\ \A o \in DOMAIN heap :
            IF heap[o].id = reply'.conversation_id
            THEN /\ heap'[o].messages = <<>>
                 /\ heap'[o] = [heap[o] EXCEPT !.messages = <<>>]
                 /\ heap'[o].turns = heap[o].turns
                 /\ heap'[o].total_input_tokens = heap[o].total_input_tokens
                 /\ heap'[o].total_output_tokens = heap[o].total_output_tokens
                 /\ heap'[o].files = heap[o].files
                 /\ heap'[o].models_used = heap[o].models_used
            ELSE heap'[o] = heap[o]]_vars

\* a conversation with a turn, tokens counted, a file and a model used has
\* just had its context cleared
C12_Witness ==
  /\ reply.op = "clear" /\ reply.status = 200
  /\ \E o \in DOMAIN heap :
       /\ heap[o].id = reply.conversation_id
       /\ heap[o].messages = <<>>
       /\ Len(heap[o].turns) >= 2
       /\ heap[o].total_input_tokens > 0 /\ heap[o].total_output_tokens > 0
       /\ heap[o].files # <<>>
       /\ heap[o].models_used # {}

\* the last n elements of a list
Trailing(q, n) == SubSeq(q, Len(q) - n + 1, Len(q))

Min(a, b) == IF a <= b THEN a ELSE b

\* C13: get_windowed_messages(W) returns the whole message list when W = 0
\* and the last min(len(messages), 2 * W) messages, in their order, when
\* W > 0; the call changes no state, so a second call on the same state
\* returns the same list.
C13_WindowedMessages ==
  [][Handled("window") =>
       /\ UNCHANGED <<ACTIVE_CONVERSATIONS, heap, fresh, disk, TURNS_CSV,
                      CONVERSATIONS_CSV, reqs>>
       /\ \A n \in 1..Len(ACTIVE_CONVERSATIONS) :
            LET c == heap[ACTIVE_CONVERSATIONS[n].obj]
                W == reply'.window_size
            IN  c.id = reply'.conversation_id =>
                  /\ W = 0 => reply'.messages = c.messages
                  /\ W > 0 => /\ Len(reply'.messages) = Min(Len(c.messages), 2 * W)
                              /\ reply'.messages =
                                   Trailing(c.messages, Min(Len(c.messages), 2 * W))
                  /\ reply'.messages = get_windowed_messages(heap'[ACTIVE_CONVERSATIONS'[n].obj], W)]_vars

\* a window of one turn was read from a conversation that holds six messages
\* of two different prompts
C13_Witness ==
  /\ reply.op = "window" /\ reply.window_size = 1
  /\ Len(reply.messages) = 2
  /\ \E o \in DOMAIN heap :
       /\ heap[o].id = reply.conversation_id
       /\ Len(heap[o].messages) = 6
       /\ heap[o].messages[1] # heap[o].messages[5]
       /\ reply.messages[1] = heap[o].messages[5]

\* C14, as claimed: for every conversation that is ended, to_dict() called
\* just before reports a total turn count, and end() reports the same count.
C14_EndMatchesToDict ==
  [][Len(CONVERSATIONS_CSV') > Len(CONVERSATIONS_CSV) =>
       LET conv_id == Last(CONVERSATIONS_CSV').conversation_id
           c == heap[ACTIVE_CONVERSATIONS[Find(ACTIVE_CONVERSATIONS, heap, conv_id)].obj]
       IN  /\ ~to_dict_raises(c)
           /\ reply'.status = 200
           /\ reply'.total_turns = to_dict(c).total_turns]_vars

\* the sum of the input / output token counts recorded on the turns of a log
RECURSIVE InputTokens(_)
InputTokens(turns) ==
  IF turns = <<>> THEN 0 ELSE Head(turns).input_tokens + InputTokens(Tail(turns))

RECURSIVE OutputTokens(_)
OutputTokens(turns) ==
  IF turns = <<>> THEN 0 ELSE Head(turns).output_tokens + OutputTokens(Tail(turns))

\* C15: in a conversation made by new_conversation, total_input_tokens and
\* total_output_tokens are the sums of the input and output token counts
\* recorded on the turns of the turn log, and no step of send, compare,
\* upload or clear-context makes either total smaller.
C15_TokenTotals ==
  [][/\ \A o \in fresh' \cap DOMAIN heap' :
          /\ heap'[o].total_input_tokens = InputTokens(heap'[o].turns)
          /\ heap'[o].total_output_tokens = OutputTokens(heap'[o].turns)
     /\ \A o \in fresh \cap DOMAIN heap \cap DOMAIN heap' :
          /\ heap'[o].total_input_tokens >= heap[o].total_input_tokens
          /\ heap'[o].total_output_tokens >= heap[o].total_output_tokens]_vars

\* a conversation with a file and a cleared context holds a regular turn and
\* a comparison turn of which one model failed and one answered, and has
\* counted the tokens of both turns
C15_Witness ==
  \E o \in fresh \cap DOMAIN heap :
    /\ heap[o].files # <<>> /\ heap[o].messages = <<>>
    /\ \E i, j \in 1..Len(heap[o].turns) :
         /\ heap[o].turns[i].type = "regular" /\ heap[o].turns[i].output_tokens > 0
         /\ heap[o].turns[j].type = "comparison"
         /\ Cardinality(Succeeded(heap[o].turns[j].results)) = 1
         /\ Len(heap[o].turns[j].results) = 2
         /\ heap[o].total_input_tokens
              = heap[o].turns[i].input_tokens + heap[o].turns[j].input_tokens
         /\ heap[o].total_input_tokens > heap[o].turns[i].input_tokens

\* C16, as claimed: a send request without a model is rejected before the
\* gateway is called, so no send request in flight lacks its model.
C16_SendRejectsAbsent ==
  \A r \in DOMAIN reqs : reqs[r].kind = "send" => reqs[r].model # Absent

\* the first place at or after from where part occurs in text, 0 if none
RECURSIVE Occurs(_, _, _)
Occurs(text, part, from) ==
  IF from + Len(part) - 1 > Len(text) THEN 0
  ELSE IF SubSeq(text, from, from + Len(part) - 1) = part THEN from
  ELSE Occurs(text, part, from + 1)

\* text holds the parts one after the other, in their order, from from on
RECURSIVE HoldsInOrder(_, _, _)
HoldsInOrder(text, parts, from) ==
  IF parts = <<>> THEN TRUE
  ELSE LET at == Occurs(text, Head(parts), from)
       IN  at # 0 /\ HoldsInOrder(text, Tail(parts), at + Len(Head(parts)))

\* the requests whose gateway calls are being made: call_llm of a send, the
\* tasks of a comparison just submitted
AtGateway == {r \in DOMAIN reqs : reqs[r].pc \in {"calling", "submitted"}}

\* C17: every send or compare request on a conversation with uploaded files
\* passes the gateway a message list whose last message is a user message
\* that holds the contents of all the files uploaded so far, in upload order,
\* and ends with the prompt; cleared context or not.  Without files the last
\* message is the prompt.
C17_FilesAheadOfPrompt ==
  \A r \in AtGateway :
    LET q == reqs[r]
        c == heap[q.conv]
        last == Last(q.messages)
        ahead == Len(last.content) - Len(q.prompt)
    IN  /\ last.role = "user"
        /\ ahead >= 0
        /\ Trailing(last.content, Len(q.prompt)) = q.prompt
        /\ c.files = <<>> => ahead = 0
        /\ c.files # <<>> =>
             /\ HoldsInOrder(SubSeq(last.content, 1, ahead),
                             [i \in 1..Len(c.files) |-> c.files[i].content], 1)
             /\ last.content = get_files_context(c) \o <<"\n">> \o q.prompt

\* a comparison is in flight on a conversation that holds two different files
\* and a turn, after its context was cleared
C17_Witness ==
  \E r \in AtGateway :
    /\ IsComparison(reqs[r])
    /\ heap[reqs[r].conv].files = <<FileB, FileA>>
    /\ heap[reqs[r].conv].turns # <<>>
    /\ Len(reqs[r].messages) = 1

\* C18, as claimed: conversations.csv holds one row for each conversation id
\* that has been ended, so no two of its rows name the same conversation.
C18_OneRowPerConversation ==
  \A i, j \in 1..Len(CONVERSATIONS_CSV) :
    CONVERSATIONS_CSV[i].conversation_id = CONVERSATIONS_CSV[j].conversation_id
      => i = j

\* the rows a step appends to turns.csv, when it keeps the rows there were
AppendedRows ==
  SubSeq(TURNS_CSV', Len(TURNS_CSV) + 1, Len(TURNS_CSV'))

\* C19: no step removes or rewrites a row of turns.csv; a step that appends a
\* regular turn appends exactly one row, with the turn's number, model,
\* prompt and response; a step that appends a comparison turn appends exactly
\* one row per model result, in the order of the results, each with the
\* turn's number; a step that appends no turn appends no row.
C19_TurnsLedger ==
  [][/\ Len(TURNS_CSV') >= Len(TURNS_CSV)
     /\ SubSeq(TURNS_CSV', 1, Len(TURNS_CSV)) = TURNS_CSV
     /\ (\A o \in DOMAIN heap \cap DOMAIN heap' : Appended(o) = <<>>)
          => TURNS_CSV' = TURNS_CSV
     /\ \A o \in DOMAIN heap \cap DOMAIN heap' :
          LET new == Appended(o)
          IN  new # <<>> =>
                LET turn == new[1]
                IN  /\ turn.type = "regular" =>
                         AppendedRows = <<[conversation_id |-> heap[o].id,
                                           turn_number |-> turn.turn_number,
                                           model |-> turn.model, prompt |-> turn.prompt,
                                           response |-> turn.response]>>
                    /\ turn.type = "comparison" =>
                         /\ Len(AppendedRows) = Len(turn.results)
                         /\ \A i \in 1..Len(turn.results) :
                              /\ AppendedRows[i].conversation_id = heap[o].id
                              /\ AppendedRows[i].turn_number = turn.turn_number
                              /\ AppendedRows[i].model = turn.results[i].model
                              /\ AppendedRows[i].prompt = turn.prompt
                              /\ AppendedRows[i].response = turn.results[i].response]_vars

\* turns.csv holds the row of a regular turn and then the two rows of a
\* comparison turn, one of a model that failed and one of a model that
\* answered
C19_Witness ==
  /\ Len(TURNS_CSV) = 3
  /\ TURNS_CSV[1].turn_number = 1 /\ TURNS_CSV[1].model = ModelA
  /\ TURNS_CSV[2].turn_number = 2 /\ TURNS_CSV[3].turn_number = 2
  /\ TURNS_CSV[2].response = None /\ TURNS_CSV[3].response # None
  /\ \E o \in DOMAIN heap : Len(heap[o].turns) = 2

\* the handlers run on the threads of the server and share
\* ACTIVE_CONVERSATIONS without a lock: an end request is handled while a
\* send or a streaming comparison of thread 1 is between two of its steps
NextEndOverlap ==
  \/ Idle /\ \E sid \in Sessions, conv_id \in ConvIds : new_conversation(sid, conv_id)
  \/ \E conv_id \in ActiveIds : end_conversation(conv_id)
  \/ Idle /\ \E conv_id \in ActiveIds : send_message(1, conv_id, ModelA, PromptHi)
  \/ Idle /\ \E conv_id \in ActiveIds, ms \in LiveLists :
               compare_models_stream(1, conv_id, ms, PromptTwo)
  \/ Continue(1)

SpecEndOverlap == Init /\ [][NextEndOverlap]_vars

\* C20: once end has returned for a conversation and its conversation.json
\* is on disk, the entries the file lists are the turns of the conversation's
\* turn log: no step adds a turn to the log of an ended conversation whose
\* conversation.json does not list that turn too.
C20_SummaryIsTurnLog ==
  [][\A r \in DOMAIN reqs :
       (reqs[r].pc = "saved" /\ r \notin DOMAIN reqs') =>
         LET c == heap[reqs[r].conv]
         IN  (c.ended /\ disk'[c.id].summary # <<>>) =>
               /\ disk'[c.id].summary[1].total_turns = Len(c.turns) + 1
               /\ Len(disk'[c.id].summary[1].turns) = Len(c.turns) + 1]_vars

\* C20, the requests taken one at a time: every conversation.json on disk has
\* a total_turns equal to the number
\* of turn entries it lists; and when end is answered, the entries of the
\* conversation.json it wrote are the turns of the conversation's turn log,
\* in log order, each with the number, the type and the content of its turn.
C20_SummaryConsistent ==
  [][/\ \A conv_id \in DOMAIN disk' :
          disk'[conv_id].summary # <<>> =>
            disk'[conv_id].summary[1].total_turns = Len(disk'[conv_id].summary[1].turns)
     /\ (Len(CONVERSATIONS_CSV') > Len(CONVERSATIONS_CSV) /\ reply'.status = 200) =>
          LET conv_id == Last(CONVERSATIONS_CSV').conversation_id
              c == heap[ACTIVE_CONVERSATIONS[Find(ACTIVE_CONVERSATIONS, heap, conv_id)].obj]
              summary == disk'[conv_id].summary[1]
          IN  /\ summary.conversation_id = conv_id
              /\ summary.total_turns = Len(c.turns)
              /\ reply'.total_turns = Len(c.turns)
              /\ Len(summary.turns) = Len(c.turns)
              /\ \A i \in 1..Len(c.turns) :
                   /\ summary.turns[i].turn = c.turns[i].turn_number
                   /\ summary.turns[i].type = c.turns[i].type
                   /\ summary.turns[i].prompt = c.turns[i].prompt
                   /\ summary.turns[i].model = c.turns[i].model
                   /\ summary.turns[i].response = c.turns[i].response
                   /\ summary.turns[i].results = c.turns[i].results]_vars

\* end has just written a conversation.json that replaced an earlier one and
\* lists a comparison turn and a regular turn
C20_Witness ==
  /\ reply.op = "end" /\ reply.status = 200
  /\ Len(CONVERSATIONS_CSV) = 2
  /\ \E conv_id \in DOMAIN disk :
       /\ disk[conv_id].summary # <<>>
       /\ Len(disk[conv_id].summary[1].turns) = 2
       /\ disk[conv_id].summary[1].turns[1].type = "comparison"
       /\ disk[conv_id].summary[1].turns[2].type = "regular"

(***************************************************************************)
(* routes: the saved conversations                                         *)
(***************************************************************************)
\* the ids of the conversations that are listed, and their directories as
\* sorted(CONVERSATIONS_DIR.iterdir(), reverse=True) yields them
ListIds == {"c1", "c2"}

SortedDirs == <<"c2", "c1">>

\* a write of conversation.json that was cut short: json.load rejects the file
cut_short(conv_id) ==
  /\ /\ conv_id \in DOMAIN disk
     /\ disk[conv_id].summary # <<>> /\ ~disk[conv_id].cut
     /\ disk' = [disk EXCEPT ![conv_id].cut = TRUE]
     /\ UNCHANGED <<ACTIVE_CONVERSATIONS, heap, fresh, TURNS_CSV, CONVERSATIONS_CSV,
                    reqs, reply>>
  /\ UNCHANGED <<HISTORIES, CSV_LOG>>

\* a listing that takes every conversation.json as it is
Listed_Unguarded(conv_id) ==
  /\ conv_id \in DOMAIN disk
  /\ disk[conv_id].summary # <<>>

\* list_conversations appends an entry: conversation.json exists and the body
\* of the try raises nothing (json.load accepts the file)
Listed(conv_id) ==
  /\ conv_id \in DOMAIN disk
  /\ disk[conv_id].summary # <<>>
  /\ ~disk[conv_id].cut

\* the entry of one saved conversation
ListEntry(conv_id) ==
  LET summary == disk[conv_id].summary[1]
  IN  [id |-> conv_id,
       total_turns |-> Len(summary.turns),
       models_used |-> summary.models_used,
       first_prompt |-> IF Len(summary.turns) > 0
                        THEN Prefix(summary.turns[1].prompt, 100)
                        ELSE <<>>]

\* GET /conversations/list
list_conversations ==
  /\ /\ LET dirs == SelectSeq(SortedDirs, Listed)
        IN  reply' = [op |-> "list", status |-> 200,
                      conversations |-> [i \in 1..Len(dirs) |-> ListEntry(dirs[i])]]
     /\ UNCHANGED <<ACTIVE_CONVERSATIONS, heap, fresh, disk, TURNS_CSV,
                    CONVERSATIONS_CSV, reqs>>
  /\ UNCHANGED <<HISTORIES, CSV_LOG>>

NextList ==
  \/ Idle /\ \E sid \in Sessions, conv_id \in ListIds : new_conversation(sid, conv_id)
  \/ Idle /\ \E conv_id \in ActiveIds : end_conversation(conv_id)
  \/ Idle /\ \E conv_id \in ActiveIds, p \in Prompts : send_message(1, conv_id, ModelA, p)
  \/ Idle /\ \E conv_id \in ListIds : cut_short(conv_id)
  \/ Idle /\ list_conversations
  \/ SendContinue(1)

SpecList == Init /\ [][NextList]_vars

\* C21: listing the saved conversations is answered 200 whatever the files
\* hold: the conversations it returns are exactly those whose
\* conversation.json exists and parses, each once, with the number of turns
\* the file lists; a conversation whose file does not parse is left out.
C21_ListSkipsUnreadable ==
  [][(reply'.op = "list" /\ reply' # reply) =>
       /\ reply'.status = 200
       /\ disk' = disk
       /\ {reply'.conversations[i].id : i \in DOMAIN reply'.conversations}
            = {conv_id \in DOMAIN disk : disk[conv_id].summary # <<>> /\ ~disk[conv_id].cut}
       /\ \A i, j \in DOMAIN reply'.conversations :
            reply'.conversations[i].id = reply'.conversations[j].id => i = j
       /\ \A i \in DOMAIN reply'.conversations :
            reply'.conversations[i].total_turns
              = Len(disk[reply'.conversations[i].id].summary[1].turns)]_vars

\* a listing of two saved conversations, one of them with a file that does not
\* parse, returns the other one
C21_Witness ==
  /\ reply.op = "list"
  /\ Len(reply.conversations) = 1
  /\ \E conv_id \in DOMAIN disk : disk[conv_id].cut
  /\ \A conv_id \in ListIds : conv_id \in DOMAIN disk /\ disk[conv_id].summary # <<>>
  /\ reply.conversations[1].total_turns = 1

\* C22: the gateway is called once per send and once per model of a
\* comparison, whether the call returns or raises: a send leaves its gateway
\* call for the save of the turn or for its 500 answer and never comes back to
\* it; a task of a comparison that has returned is not run again, each step
\* is the return of at most one call, and when the comparison adds its turn
\* every entry of the model list has returned exactly once.
C22_NoRetry ==
  [][\A r \in DOMAIN reqs :
       LET q == reqs[r]
       IN  /\ (q.kind = "send" /\ q.pc = "calling" /\ reqs' # reqs) =>
                \/ r \notin DOMAIN reqs' /\ reply'.op = "send" /\ reply'.status = 500
                \/ r \in DOMAIN reqs' /\ reqs'[r].pc = "saved"
           /\ (q.kind = "send" /\ q.pc # "calling" /\ r \in DOMAIN reqs') =>
                reqs'[r].pc # "calling"
           /\ (q.kind \in {"compare", "stream"} /\ r \in DOMAIN reqs') =>
                /\ \A k \in DOMAIN q.tasks : q.tasks[k].done => reqs'[r].tasks[k] = q.tasks[k]
                /\ Len(reqs'[r].finished) <= Len(q.finished) + 1
                /\ \A k \in DOMAIN q.tasks :
                     Cardinality({i \in DOMAIN reqs'[r].finished : reqs'[r].finished[i] = k})
                       = IF reqs'[r].tasks[k].done THEN 1 ELSE 0
           /\ (q.kind \in {"compare", "stream"} /\ r \notin DOMAIN reqs') =>
                /\ Len(q.finished) = Len(q.models)
                /\ \A k \in DOMAIN q.models :
                     Cardinality({i \in DOMAIN q.finished : q.finished[i] = k}) = 1]_vars

\* a comparison over two models, the first call failed and the second
\* returned, is about to add its turn
C22_Witness ==
  /\ 1 \in DOMAIN reqs /\ reqs[1].kind = "compare" /\ reqs[1].pc = "saved"
  /\ Len(reqs[1].models) = 2 /\ Len(reqs[1].finished) = 2
  /\ reqs[1].tasks[1].error # None /\ reqs[1].tasks[2].error = None

(***************************************************************************)
(* routes: export                                                          *)
(***************************************************************************)
\* the values of the fmt argument: the three formats and one that is not one
Formats == {"json", "md", "docx", "pdf"}

\* an export that writes its document over conversation.json
export_conversation_to_markdown_InPlace(d, conv_id) ==
  [d EXCEPT !.summary = <<>>, !.exports = @ \cup {<<conv_id, "md">>}]

\* storage.export_conversation_to_markdown: writes conv_dir/<conv_id>.md
export_conversation_to_markdown(d, conv_id) ==
  [d EXCEPT !.exports = @ \cup {<<conv_id, "md">>}]

\* storage.export_conversation_to_docx, when convert_text returns: writes
\* conv_dir/<conv_id>.docx
export_conversation_to_docx(d, conv_id) ==
  [d EXCEPT !.exports = @ \cup {<<conv_id, "docx">>}]

\* what export_conversation answers
Exported(status, fmt, file) ==
  [op |-> "export", status |-> status, fmt |-> fmt, file |-> file]

\* GET /conversation/export/<conv_id>?fmt=...; converts tells whether pypandoc
\* is there and convert_text returns
export_conversation(conv_id, fmt, converts) ==
  /\ /\ IF conv_id \notin DOMAIN disk \/ disk[conv_id].summary = <<>>
        THEN reply' = Exported(404, fmt, Absent) /\ UNCHANGED disk
        ELSE IF fmt = "json"
        THEN reply' = Exported(200, fmt, <<conv_id, "json">>) /\ UNCHANGED disk
        ELSE IF disk[conv_id].cut
        THEN \* json.load raises outside every try
             reply' = Exported(500, fmt, Absent) /\ UNCHANGED disk
        ELSE IF fmt = "md"
        THEN /\ disk' = [disk EXCEPT ![conv_id] = export_conversation_to_markdown(@, conv_id)]
             /\ reply' = Exported(200, fmt, <<conv_id, "md">>)
        ELSE IF fmt = "docx"
        THEN IF converts
             THEN /\ disk' = [disk EXCEPT ![conv_id] = export_conversation_to_docx(@, conv_id)]
                  /\ reply' = Exported(200, fmt, <<conv_id, "docx">>)
             ELSE \* "pandoc conversion failed"
                  reply' = Exported(500, fmt, Absent) /\ UNCHANGED disk
        ELSE reply' = Exported(400, fmt, Absent) /\ UNCHANGED disk
     /\ UNCHANGED <<ACTIVE_CONVERSATIONS, heap, fresh, TURNS_CSV, CONVERSATIONS_CSV, reqs>>
  /\ UNCHANGED <<HISTORIES, CSV_LOG>>

NextExport ==
  \/ Idle /\ \E sid \in Sessions, conv_id \in ConvIds : new_conversation(sid, conv_id)
  \/ Idle /\ \E conv_id \in ActiveIds : end_conversation(conv_id)
  \/ Idle /\ \E conv_id \in SavedIds, sid \in Sessions : restore_conversation(conv_id, sid)
  \/ Idle /\ \E conv_id \in ActiveIds : send_message(1, conv_id, ModelA, PromptHi)
  \/ Idle /\ \E conv_id \in ConvIds : cut_short(conv_id)
  \/ Idle /\ \E conv_id \in ConvIds, fmt \in Formats, converts \in BOOLEAN :
               export_conversation(conv_id, fmt, converts)
  \/ SendContinue(1)

SpecExport == Init /\ [][NextExport]_vars

\* C23: an export, in any format and whether it is answered with a file or
\* with an error, changes no conversation.json, no turn directory, no active
\* conversation (turn log, message list, membership) and no ledger; and a
\* docx export after which no docx document exists is answered with an error
\* and no file, while an export answered 200 names the file it sends, which
\* for md and docx is a document in the conversation's directory.
C23_ExportIsPure ==
  [][(/\ reply'.op = "export"
      /\ \/ reply' # reply
         \/ \E conv_id \in DOMAIN disk : disk'[conv_id].exports # disk[conv_id].exports) =>
       /\ ACTIVE_CONVERSATIONS' = ACTIVE_CONVERSATIONS
       /\ heap' = heap
       /\ TURNS_CSV' = TURNS_CSV /\ CONVERSATIONS_CSV' = CONVERSATIONS_CSV
       /\ DOMAIN disk' = DOMAIN disk
       /\ \A conv_id \in DOMAIN disk :
            /\ disk'[conv_id].summary = disk[conv_id].summary
            /\ disk'[conv_id].cut = disk[conv_id].cut
            /\ disk'[conv_id].dirs = disk[conv_id].dirs
       /\ reply'.status = 200 <=> reply'.file # Absent
       /\ (reply'.status = 200 /\ reply'.fmt # "json") =>
            reply'.file \in disk'[reply'.file[1]].exports
       /\ (reply'.fmt = "docx" /\ \A conv_id \in DOMAIN disk' :
                                    <<conv_id, "docx">> \notin disk'[conv_id].exports) =>
            reply'.status \in {404, 500} /\ reply'.file = Absent]_vars

\* a docx conversion has just failed for a saved conversation with a turn
\* that is active again after a restore
C23_Witness ==
  /\ reply.op = "export" /\ reply.fmt = "docx" /\ reply.status = 500
  /\ \E i \in DOMAIN ACTIVE_CONVERSATIONS :
       LET c == heap[ACTIVE_CONVERSATIONS[i].obj]
       IN  /\ Len(c.turns) = 1
           /\ c.id \in DOMAIN disk /\ disk[c.id].summary # <<>> /\ ~disk[c.id].cut
           /\ <<c.id, "md">> \in disk[c.id].exports

\* the result events among the events of a stream, in the order sent
ResultEvents(events) == SelectSeq(events, LAMBDA e : e.type = "result")

\* C24: in a streaming comparison over N models the k-th result event carries
\* completed = k and total = N, while the stream runs and in the finished
\* answer; the finished answer holds N result events, so the counter of the
\* last one equals total.
C24_RunningCounter ==
  /\ \A r \in DOMAIN reqs :
       reqs[r].kind = "stream" =>
         LET sent == ResultEvents(reqs[r].events)
         IN  /\ Len(sent) <= Len(reqs[r].models)
             /\ \A k \in DOMAIN sent :
                  sent[k].completed = k /\ sent[k].total = Len(reqs[r].models)
  /\ (reply.op = "stream" /\ reply.status = 200) =>
       LET sent == ResultEvents(reply.events)
       IN  /\ Len(sent) >= 1
           /\ \A k \in DOMAIN sent : sent[k].completed = k /\ sent[k].total = Len(sent)
           /\ sent[Len(sent)].completed = sent[Len(sent)].total
           /\ reply.events[1].type = "init" /\ Len(reply.events[1].models) = Len(sent)

\* a stream over three models has sent its three result events, the model
\* asked last first
C24_Witness ==
  /\ reply.op = "stream" /\ reply.status = 200
  /\ Len(ResultEvents(reply.events)) = 3
  /\ ResultEvents(reply.events)[1].model = reply.events[1].models[3]
  /\ ResultEvents(reply.events)[3].completed = 3

(***************************************************************************)
(* local_llm_logger_v_2_flask_react_mui: sessions and /generate            *)
(***************************************************************************)
\* the largest keep_last a client of the model asks for
MaxKeep == 3

\* hard cap per session
MAX_TOTAL_HISTORY == 64

\* hist[-n:] for n > 0
LastOf(hist, n) ==
  SubSeq(hist, IF Len(hist) > n THEN Len(hist) - n + 1 ELSE 1, Len(hist))

\* the number of assistant messages of a history
Turns(hist) == Len(SelectSeq(hist, LAMBDA msg : msg.role = "assistant"))

\* what the v3 handlers leave alone
V3Unchanged ==
  UNCHANGED <<ACTIVE_CONVERSATIONS, heap, fresh, disk, TURNS_CSV, CONVERSATIONS_CSV>>

\* POST /start_session: the uuid4 of the new session is sid
start_session(sid) ==
  /\ HISTORIES' = Put(HISTORIES, sid, <<>>)
  /\ reply' = [op |-> "start_session", status |-> 200, session_id |-> sid]
  /\ V3Unchanged /\ UNCHANGED <<reqs, CSV_LOG>>

\* POST /clear_session
clear_session(sid) ==
  /\ IF sid = Absent
     THEN reply' = [op |-> "clear_session", status |-> 400, session_id |-> sid]
          /\ UNCHANGED HISTORIES
     ELSE reply' = [op |-> "clear_session", status |-> 200, session_id |-> sid]
          /\ HISTORIES' = Put(HISTORIES, sid, <<>>)
  /\ V3Unchanged /\ UNCHANGED <<reqs, CSV_LOG>>

\* what /generate answers
Generated(status, sid, keep_last, auto_cleared) ==
  [op |-> "generate", status |-> status, session_id |-> sid,
   keep_last |-> keep_last, auto_cleared |-> auto_cleared]

\* a /generate that sends the gateway the whole history
messages_Whole(hist, keep_last, prompt) ==
  IF keep_last <= 0
  THEN <<Message("user", prompt)>>
  ELSE Append(hist, Message("user", prompt))

\* the messages of the gateway call: call_generate(model, prompt), or
\* hist[-(2*keep_last):] + [the prompt] for call_chat
messages(hist, keep_last, prompt) ==
  IF keep_last <= 0
  THEN <<Message("user", prompt)>>
  ELSE Append(LastOf(hist, 2 * keep_last), Message("user", prompt))

\* POST /generate, up to the gateway call
generate(r, sid, keep_last, prompt) ==
  /\ r \notin DOMAIN reqs
  /\ Len(CSV_LOG) < MaxRows
  /\ LET hists == IF sid \in DOMAIN HISTORIES THEN HISTORIES ELSE Put(HISTORIES, sid, <<>>)
         hist == IF keep_last > 0 /\ Len(hists[sid]) > MAX_TOTAL_HISTORY
                 THEN LastOf(hists[sid], MAX_TOTAL_HISTORY) ELSE hists[sid]
     IN  IF prompt = <<>>
         THEN /\ HISTORIES' = hists
              /\ reply' = Generated(400, sid, keep_last, FALSE)
              /\ UNCHANGED reqs
         ELSE /\ HISTORIES' = [hists EXCEPT ![sid] = hist]
              /\ reqs' = Put(reqs, r, [kind |-> "generate", sid |-> sid,
                                       keep_last |-> keep_last, prompt |-> prompt,
                                       model |-> ModelA, pc |-> "calling",
                                       messages |-> messages(hist, keep_last, prompt)])
              /\ UNCHANGED reply
  /\ V3Unchanged /\ UNCHANGED CSV_LOG

\* call_generate or call_chat raises: 500
generate_fails(r) ==
  /\ r \in DOMAIN reqs /\ reqs[r].kind = "generate"
  /\ reqs' = Drop(reqs, r)
  /\ reply' = Generated(500, reqs[r].sid, reqs[r].keep_last, FALSE)
  /\ V3Unchanged /\ UNCHANGED <<HISTORIES, CSV_LOG>>

\* the gateway call returns: the history is updated, save_artifacts appends
\* the row of log.csv, and the answer is sent
generate_returns(r) ==
  /\ r \in DOMAIN reqs /\ reqs[r].kind = "generate"
  /\ LET q == reqs[r]
         result == ResponseOf(q.model)
         hist == HISTORIES[q.sid] \o <<Message("user", q.prompt),
                                       Message("assistant", result)>>
         cleared == q.keep_last > 0 /\ Turns(hist) >= q.keep_last
     IN  /\ HISTORIES' = [HISTORIES EXCEPT ![q.sid] =
                            IF q.keep_last <= 0 \/ cleared THEN <<>> ELSE hist]
         /\ CSV_LOG' = Append(CSV_LOG, [model |-> q.model, prompt |-> q.prompt,
                                        result |-> result])
         /\ reply' = Generated(200, q.sid, q.keep_last, cleared)
  /\ reqs' = Drop(reqs, r)
  /\ V3Unchanged

NextV2 ==
  \/ Idle /\ \E sid \in Sessions : start_session(sid)
  \/ Idle /\ \E sid \in Sessions \cup {Absent} : clear_session(sid)
  \/ Idle /\ \E sid \in Sessions, keep_last \in 0..MaxKeep, prompt \in Prompts \cup {<<>>} :
               generate(1, sid, keep_last, prompt)
  \/ generate_fails(1)
  \/ generate_returns(1)

SpecV2 == Init /\ [][NextV2]_vars

\* every call of /generate that has reached the gateway asked for keep_last = n
CallsKeep(n) ==
  \A r \in DOMAIN reqs : reqs[r].kind = "generate" => reqs[r].keep_last = n

\* what a session keeping n turns holds between its calls
KeepsUnder(n) ==
  \A sid \in DOMAIN HISTORIES :
    /\ Len(HISTORIES[sid]) % 2 = 0
    /\ IF n = 0 THEN HISTORIES[sid] = <<>> ELSE Turns(HISTORIES[sid]) < n

C26_RestoreCountsTurns ==
  [][\A o \in Restored :
       LET summary == disk[heap'[o].id].summary[1]
       IN  reply'.status = 200 =>
             /\ reply'.total_turns = Len(summary.turns)
             /\ Len(heap'[o].turns) = Len(summary.turns)]_vars

\* two request threads of the server work on one conversation: a send on
\* either, a comparison on the second, every interleaving of their steps
NextRace ==
  \/ Idle /\ \E sid \in Sessions, conv_id \in ConvIds : new_conversation(sid, conv_id)
  \/ \E r \in ReqIds, conv_id \in ActiveIds, p \in Prompts :
       send_message(r, conv_id, ModelA, p)
  \/ \E conv_id \in ActiveIds, ms \in ModelLists : compare_models(2, conv_id, ms, PromptHi)
  \/ \E r \in ReqIds : Continue(r)

SpecRace == Init /\ [][NextRace]_vars

\* C27, as claimed: when a send adds its turn, the turn_number it answers and
\* the number in the name of the turn directory it wrote are the turn_number
\* stored on the turn it appends, whatever another request on the same
\* conversation does in between.
C27_TurnNumberAgrees ==
  [][\A r \in DOMAIN reqs :
       (reqs[r].kind = "send" /\ reqs[r].pc = "saved" /\ r \notin DOMAIN reqs') =>
         LET q == reqs[r]
             stored == Len(heap[q.conv].turns) + 1
         IN  /\ reply'.status = 200
             /\ reply'.turn_number = stored
             /\ q.turn_num = stored
             /\ TurnDirKey(stored, q.prompt) \in DOMAIN disk[heap[q.conv].id].dirs]_vars

\* C28: a send whose gateway call fails is answered 500 with "LLM call
\* failed: " and the upstream message, and changes nothing: the conversation
\* object (turn log, message list, token totals, models used, files), the
\* active set, the turn directories and conversation.json, and both ledgers
\* are as they were.
C28_FailedSendChangesNothing ==
  [][\A r \in DOMAIN reqs :
       (reqs[r].kind = "send" /\ reqs[r].pc = "calling" /\ r \notin DOMAIN reqs') =>
         /\ reply'.op = "send" /\ reply'.status = 500
         /\ reply'.error = LLMCallFailed(ErrorText)
         /\ ACTIVE_CONVERSATIONS' = ACTIVE_CONVERSATIONS
         /\ \E i \in DOMAIN ACTIVE_CONVERSATIONS' :
              ACTIVE_CONVERSATIONS'[i].obj = reqs[r].conv
         /\ heap' = heap
         /\ disk' = disk
         /\ TURNS_CSV' = TURNS_CSV /\ CONVERSATIONS_CSV' = CONVERSATIONS_CSV]_vars

\* a send has just failed on a conversation that holds a turn, a file and
\* messages
C28_Witness ==
  /\ reply.op = "send" /\ reply.status = 500 /\ reply.error # None
  /\ \E i \in DOMAIN ACTIVE_CONVERSATIONS :
       LET c == heap[ACTIVE_CONVERSATIONS[i].obj]
       IN  Len(c.turns) >= 1 /\ c.messages # <<>> /\ c.files # <<>>
           /\ Len(TURNS_CSV) >= 1

\* the sessions of two clients
TwoSessions == {"s1", "s2"}

\* two clients start, end and restore conversations
NextSessions ==
  \/ Idle /\ \E sid \in TwoSessions, conv_id \in ConvIds : new_conversation(sid, conv_id)
  \/ Idle /\ \E conv_id \in ActiveIds : end_conversation(conv_id)
  \/ Idle /\ \E conv_id \in SavedIds, sid \in TwoSessions : restore_conversation(conv_id, sid)
  \/ Idle /\ \E conv_id \in ActiveIds : send_message(1, conv_id, ModelA, PromptHi)
  \/ SendContinue(1)

SpecSessions == Init /\ [][NextSessions]_vars

\* C29, as claimed: no two entries of the active set hold the same
\* conversation id, and after an end that is answered 200 no active
\* conversation has the id that was ended.
C29_OneEntryPerConversation ==
  /\ \A i, j \in DOMAIN ACTIVE_CONVERSATIONS :
       heap[ACTIVE_CONVERSATIONS[i].obj].id = heap[ACTIVE_CONVERSATIONS[j].obj].id => i = j
  /\ (reply.op = "end" /\ reply.status = 200 /\ Idle) =>
       reply.conversation_id \notin ActiveIds

\* windowed_messages + [{"role": "user", "content": full_prompt}] with the
\* window size CONTEXT_WINDOW_SIZE is configured to
GatewayMessagesWith(c, window_size, prompt) ==
  Append(get_windowed_messages(c, window_size), Message("user", FullPrompt(c, prompt)))

\* the context of a conversation that is extended, compared, cleared, ended
\* and restored
NextContext ==
  \/ Idle /\ \E sid \in Sessions, conv_id \in ConvIds : new_conversation(sid, conv_id)
  \/ Idle /\ \E conv_id \in ActiveIds : clear_context_route(conv_id)
  \/ Idle /\ \E conv_id \in ActiveIds : end_conversation(conv_id)
  \/ Idle /\ \E conv_id \in SavedIds, sid \in Sessions : restore_conversation(conv_id, sid)
  \/ Idle /\ \E conv_id \in ActiveIds : send_message(1, conv_id, ModelA, PromptTwo)
  \/ Idle /\ \E conv_id \in ActiveIds, ms \in ModelLists :
               compare_models(1, conv_id, ms, PromptHi)
  \/ Continue(1)

SpecContext == Init /\ [][NextContext]_vars

\* a message list that starts with a user message and alternates the roles
Alternates(ms) ==
  /\ ms # <<>> /\ ms[1].role = "user"
  /\ \A k \in 1..(Len(ms) - 1) :
       ms[k + 1].role = IF ms[k].role = "user" THEN "assistant" ELSE "user"

\* C30: in every state of an active conversation, for every window size W
\* and every prompt, the message list handed to the gateway (the window of W
\* turns and the new prompt) starts with a user message, alternates user and
\* assistant, and ends with the new prompt as a user message; the lists of
\* the requests in flight are of that form too.
C30_WindowAlternates ==
  /\ \A i \in DOMAIN ACTIVE_CONVERSATIONS :
       \A window_size \in (0..MaxWindow) \cup {CONTEXT_WINDOW_SIZE}, p \in Prompts :
         LET c == heap[ACTIVE_CONVERSATIONS[i].obj]
             ms == GatewayMessagesWith(c, window_size, p)
         IN  /\ Alternates(ms)
             /\ Last(ms) = Message("user", FullPrompt(c, p))
             /\ Len(ms) % 2 = 1
  /\ \A r \in DOMAIN reqs :
       /\ Alternates(reqs[r].messages)
       /\ Last(reqs[r].messages).role = "user"

\* a restored conversation holds two turns, so that a window of one turn
\* leaves the first turn out
C30_Witness ==
  \E i \in DOMAIN ACTIVE_CONVERSATIONS :
    LET o == ACTIVE_CONVERSATIONS[i].obj
    IN  /\ o \notin fresh
        /\ Len(heap[o].messages) = 4
        /\ Len(GatewayMessagesWith(heap[o], 1, PromptHi)) = 3

====
